---- MODULE Spec2Model ----
(***************************************************************************)
(* perturbation_benchmarking_package: the train/test split                 *)
(* (experimenter.splitDataWrapper, experimenter._splitDataHelper), the      *)
(* metadata validation (experimenter.validate_metadata), the layout of the *)
(* runs (experimenter.lay_out_runs, set_up_data_networks_conditions), the  *)
(* evaluation (evaluator.evaluateOnePrediction) and the choice of genes    *)
(* (experimenter.filter_genes).                                            *)
(*                                                                         *)
(* A perturbation label is the sequence of the gene names that the string  *)
(* obs["perturbation"] holds between its commas: <<"g1", "g2">> is the     *)
(* label "g1,g2", and the gene name "g1" is the label <<"g1">>.            *)
(***************************************************************************)
EXTENDS Integers, Sequences, FiniteSets, TLC

VARIABLES
    adata,      \* the dataset: obs (one label per profile), var_names, uns
    networks,   \* network name -> the set its get_all_regulators() returns
    args,       \* the arguments of the last splitDataWrapper call
    result,     \* what that call returned or raised
    calls,      \* how many times splitDataWrapper has been called
    files,      \* experiment name -> the content of its metadata.json
    edits,      \* how many changes have been made to the metadata files
    metaArgs,   \* the arguments of the validate_metadata call
    outcome,    \* how that call ended
    setup,      \* the outputs folder and the last set_up_data_networks_conditions call
    evalArgs,   \* the arguments of the evaluateOnePrediction call, and the host's CPUs
    evaluation, \* how far that call has come: its parallel tasks, tables and files
    filtering,  \* the filter_genes call: its arguments and what it returned
    run         \* the do_one_run call: its arguments and how it ended

vars == <<adata, networks, args, result, calls, files, edits, metaArgs, outcome, setup,
          evalArgs, evaluation, filtering, run>>

----------------------------------------------------------------------------
(* Bounds and input sets *)

MaxObs == 3

Genes == {"g1", "g2", "g3"}

\* the perturbation labels, each the sequence of the comma-separated names in it
LabelList == << <<"g1">>, <<"g2">>, <<"g3">>, <<"g1", "g2">>, <<"control">> >>

Labels == {LabelList[i] : i \in 1..Len(LabelList)}

VarNameChoices == {{"g1", "g2", "g3"}, {"g1", "g2"}}

NetworkChoices ==
    { [netA |-> {"g1", "g2"}],
      [netA |-> {"g1", "g2"}, netB |-> {"g2", "g3"}] }

\* desired_heldout_fraction as the decimal literal num/den of metadata.json
Fractions == { [num |-> 0, den |-> 1], [num |-> 1, den |-> 5],
               [num |-> 1, den |-> 2], [num |-> 1, den |-> 1] }

Seeds == {0, 1}

Modes == {"all", "union", "intersection"}

SplitTypes == {"interventional", "simple", "genetic_interaction"}

Range(s) == {s[i] : i \in 1..Len(s)}

SeqsUpTo(S, n) == UNION {[1..k -> S] : k \in 0..n}

\* the most profiles (and so the most distinct perturbations) a dataset holds
MaxProfiles == IF MaxObs > Len(LabelList) THEN MaxObs ELSE Len(LabelList)

IsInjective(s) == \A i, j \in 1..Len(s) : s[i] = s[j] => i = j

\* the orders in which a Python set of gene names may be iterated
HashOrders == {s \in [1..Cardinality(Genes) -> Genes] : IsInjective(s)}

----------------------------------------------------------------------------
(* Python floats: IEEE-754 binary64.  A value v with 0 <= v < 2^IntBits is  *)
(* held exactly as the natural number v * 2^FracBits, written in NumLimbs   *)
(* limbs of LimbBits bits each, least significant limb first.  Every        *)
(* operation computes the exact result and rounds it to MantBits            *)
(* significant bits, to nearest, ties to even.                              *)

MantBits == 53
LimbBits == 16
NumLimbs == 4
IntBits == 4
Base == 2^LimbBits
FracBits == NumLimbs * LimbBits - IntBits

\* the limbs Limb(1), ..., Limb(NumLimbs) as a sequence
Limbs(Limb(_)) == <<Limb(1), Limb(2), Limb(3), Limb(4)>>

\* the natural number fn as a float (fn < 2^IntBits)
FInt(fn) == <<0, 0, 0, fn * 2^(LimbBits - IntBits)>>

\* bit bp (1 = least significant) of the limbs bx
BitAt(bx, bp) == (bx[((bp - 1) \div LimbBits) + 1] \div 2^((bp - 1) % LimbBits)) % 2

\* does ax have a 1 strictly below bit position aq
AnyBelow(ax, aq) ==
    \E al \in 1..NumLimbs :
        /\ (al - 1) * LimbBits + 1 < aq
        /\ IF al * LimbBits < aq THEN ax[al] # 0
           ELSE ax[al] % 2^((aq - 1) % LimbBits) # 0

\* position of the most significant 1 of tx, 0 when tx is zero
TopBit(tx) ==
    IF \A tl \in 1..NumLimbs : tx[tl] = 0 THEN 0
    ELSE LET tm == CHOOSE tl \in 1..NumLimbs :
                      tx[tl] # 0 /\ \A tj \in (tl + 1)..NumLimbs : tx[tj] = 0
             tn == CHOOSE tb \in 1..LimbBits : 2^(tb - 1) <= tx[tm] /\ tx[tm] < 2^tb
         IN  (tm - 1) * LimbBits + tn

\* cx with the bits below position cq cleared
ClearBelow(cx, cq) ==
    LET cclear(cl) == IF cl * LimbBits < cq THEN 0
                      ELSE IF (cl - 1) * LimbBits + 1 < cq
                           THEN cx[cl] - (cx[cl] % 2^((cq - 1) % LimbBits))
                           ELSE cx[cl]
    IN  Limbs(cclear)

\* carry into limb ul when 2^(uq - 1) is added to ux
RECURSIVE CarryInto(_, _, _)
CarryInto(ux, uq, ul) ==
    IF ul <= ((uq - 1) \div LimbBits) + 1 THEN 0
    ELSE LET up == ul - 1
             uadd == IF up = ((uq - 1) \div LimbBits) + 1
                     THEN 2^((uq - 1) % LimbBits) ELSE 0
         IN  (ux[up] + uadd + CarryInto(ux, uq, up)) \div Base

\* vx + 2^(vq - 1)
AddUlp(vx, vq) ==
    LET vsum(vl) == (vx[vl]
                     + (IF vl = ((vq - 1) \div LimbBits) + 1
                        THEN 2^((vq - 1) % LimbBits) ELSE 0)
                     + CarryInto(vx, vq, vl)) % Base
    IN  Limbs(vsum)

\* rx rounded to MantBits significant bits; rsticky says that the exact value
\* exceeds rx by a nonzero amount below its last place
RoundSig(rx, rsticky) ==
    LET rtop == TopBit(rx)
        rlsb == rtop - MantBits + 1
    IN  IF rtop = 0 \/ rlsb <= 1 THEN rx
        ELSE IF BitAt(rx, rlsb - 1) = 1
                /\ (rsticky \/ AnyBelow(rx, rlsb - 1) \/ BitAt(rx, rlsb) = 1)
             THEN AddUlp(ClearBelow(rx, rlsb), rlsb)
             ELSE ClearBelow(rx, rlsb)

\* remainder entering limb dl in the long division of de * 2^FracBits by dt
RECURSIVE DivRem(_, _, _)
DivRem(de, dt, dl) ==
    IF dl = NumLimbs THEN 0
    ELSE (DivRem(de, dt, dl + 1) * Base + FInt(de)[dl + 1]) % dt

\* float(qe) / float(qt) for natural numbers qe and qt > 0; also the float that a
\* decimal literal qe/qt denotes (both are the binary64 nearest to the quotient)
FDiv(qe, qt) ==
    LET qquot(ql) == (DivRem(qe, qt, ql) * Base + FInt(qe)[ql]) \div qt
    IN  RoundSig(Limbs(qquot), (DivRem(qe, qt, 1) * Base + FInt(qe)[1]) % qt # 0)

\* borrow into limb sl of sa - sb
RECURSIVE Borrow(_, _, _)
Borrow(sa, sb, sl) ==
    IF sl = 1 THEN 0
    ELSE IF sa[sl - 1] - sb[sl - 1] - Borrow(sa, sb, sl - 1) < 0 THEN 1 ELSE 0

\* xa - xb for xa >= xb
FSub(xa, xb) ==
    LET xdiff(xl) == (xa[xl] - xb[xl] - Borrow(xa, xb, xl) + Base) % Base
    IN  RoundSig(Limbs(xdiff), FALSE)

\* carry into limb ml of ma * mn
RECURSIVE MulCarry(_, _, _)
MulCarry(ma, mn, ml) ==
    IF ml = 1 THEN 0
    ELSE (ma[ml - 1] * mn + MulCarry(ma, mn, ml - 1)) \div Base

\* ya * float(yn) for a natural number yn
FMul(ya, yn) ==
    LET yprod(yl) == (ya[yl] * yn + MulCarry(ya, yn, yl)) % Base
    IN  RoundSig(Limbs(yprod), FALSE)

FLess(la, lb) ==
    \E li \in 1..NumLimbs : la[li] < lb[li] /\ \A lj \in (li + 1)..NumLimbs : la[lj] = lb[lj]

FEq(ea, eb) == \A ei \in 1..NumLimbs : ea[ei] = eb[ei]

IntPart(pa) == pa[NumLimbs] \div 2^(LimbBits - IntBits)

\* int(np.ceil(ca))
Ceil(ca) == IntPart(ca) + (IF AnyBelow(ca, FracBits + 1) THEN 1 ELSE 0)

\* Python round(pra): the nearest integer, ties to even
PyRound(pra) ==
    IF BitAt(pra, FracBits) = 1 /\ (AnyBelow(pra, FracBits) \/ IntPart(pra) % 2 = 1)
    THEN IntPart(pra) + 1 ELSE IntPart(pra)

----------------------------------------------------------------------------
(* NumPy's generators.  default_rng(seed).choice(a, size, replace=False) and  *)
(* np.random.seed(seed); np.random.choice(a, size, replace=False) pick the     *)
(* positions of a from the seed, len(a) and size alone, never from the        *)
(* contents of a.  The generators are modelled by one Fisher-Yates shuffle    *)
(* driven by a linear congruential generator; stream tells the two apart.     *)

LcgNext(lx) == (lx * 75 + 74) % 65537

Swap(wp, wi, wj) == [wp EXCEPT ![wi] = wp[wj], ![wj] = wp[wi]]

RECURSIVE Shuffle(_, _, _)
Shuffle(hp, hi, hx) ==
    IF hi <= 1 THEN hp
    ELSE Shuffle(Swap(hp, hi, (LcgNext(hx) % hi) + 1), hi - 1, LcgNext(hx))

\* the positions (1-based) of a sample of size gk out of gn, without replacement
RngChoice(stream, seed, gn, gk) ==
    SubSeq(Shuffle([k \in 1..gn |-> k], gn, LcgNext(seed + stream)), 1, gk)

----------------------------------------------------------------------------
(* The dataset (an AnnData) and what a call returns *)

UnsRules == {"by_label", "by_gene"}

NamedGenes(obs) == UNION {Range(obs[i]) : i \in 1..Len(obs)}

\* uns["perturbed_and_measured_genes"] and uns["perturbed_but_not_measured_genes"]:
\* by_label as experimenter.downsample computes them, from the labels;
\* by_gene from the genes the labels name
MakeAdata(obs, var_names, rule) ==
    [ obs       |-> obs,
      var_names |-> var_names,
      pmg       |-> IF rule = "by_label"
                    THEN Range(obs) \cap {<<g>> : g \in var_names}
                    ELSE {<<g>> : g \in NamedGenes(obs) \cap var_names},
      pbnm      |-> IF rule = "by_label"
                    THEN Range(obs) \ {<<g>> : g \in var_names}
                    ELSE {<<g>> : g \in NamedGenes(obs) \ var_names} ]

NoArgs == [mode |-> "none", type_of_split |-> "none",
           desired_heldout_fraction |-> [num |-> 0, den |-> 1], data_split_seed |-> 0]

Raised(kind) ==
    [ status |-> kind, train |-> <<>>, heldout |-> <<>>,
      trainingSetPerturbations |-> {}, testSetPerturbations |-> {},
      testSetEligible |-> <<>>, testSetIneligible |-> <<>>,
      allowedRegulators |-> {},
      train_pmg |-> {}, heldout_pmg |-> {}, train_pbnm |-> {}, heldout_pbnm |-> {} ]

NoResult == Raised("none")

\* adata[rows, :] and the four uns entries of the two returned objects
Returned(ad, train, heldout, trainPerts, testPerts, eligible, ineligible, allowed) ==
    [ status |-> "returned", train |-> train, heldout |-> heldout,
      trainingSetPerturbations |-> trainPerts, testSetPerturbations |-> testPerts,
      testSetEligible |-> eligible, testSetIneligible |-> ineligible,
      allowedRegulators |-> allowed,
      train_pmg    |-> ad.pmg \cap trainPerts,
      heldout_pmg  |-> ad.pmg \cap testPerts,
      train_pbnm   |-> ad.pbnm \cap trainPerts,
      heldout_pbnm |-> ad.pbnm \cap testPerts ]

----------------------------------------------------------------------------
(* _splitDataHelper *)

\* get_unique_keep_order = lambda x: list(dict.fromkeys(x))
RECURSIVE GetUniqueKeepOrder(_)
GetUniqueKeepOrder(us) ==
    IF us = <<>> THEN <<>>
    ELSE LET uinit == GetUniqueKeepOrder(SubSeq(us, 1, Len(us) - 1))
         IN  IF us[Len(us)] \in Range(uinit) THEN uinit ELSE Append(uinit, us[Len(us)])

\* a Python set of gene names, listed in the order its iteration yields
IterateSet(S, hashOrder) == LET inS(g) == g \in S IN SelectSeq(hashOrder, inS)

\* [p for p in allowedRegulators if p in adata.uns["perturbed_and_measured_genes"]]
FilterAllowed(allowedSeq, pmg) ==
    LET measured(g) == <<g>> \in pmg IN SelectSeq(allowedSeq, measured)

\* any(...) in place of all(...)
IsTestEligibleAny(p, allowedList) == \E i \in 1..Len(p) : p[i] \in Range(allowedList)

\* all(g in allowedRegulators for g in p.split(","))
IsTestEligible(p, allowedList) == \A i \in 1..Len(p) : p[i] \in Range(allowedList)

\* list(set(...)) in place of get_unique_keep_order: the eligible labels in the order
\* a set iterates, here by the place of their first gene in allowedList
TestSetEligibleInSetOrder(obs, allowedList) ==
    LET eligible(p) == IsTestEligible(p, allowedList)
        uniq        == GetUniqueKeepOrder(SelectSeq(obs, eligible))
        pos(g)      == CHOOSE i \in 1..Len(allowedList) : allowedList[i] = g
        rank(p)     == pos(p[1]) * (MaxProfiles + 1) + Len(p)
        before(p)   == Cardinality({q \in Range(uniq) : rank(q) < rank(p)})
    IN  [k \in 1..Len(uniq) |-> CHOOSE p \in Range(uniq) : before(p) = k - 1]

TestSetEligible(obs, allowedList) ==
    LET eligible(p) == IsTestEligible(p, allowedList)
    IN  GetUniqueKeepOrder(SelectSeq(obs, eligible))

TestSetIneligible(obs, allowedList) ==
    LET ineligible(p) == ~IsTestEligible(p, allowedList)
    IN  GetUniqueKeepOrder(SelectSeq(obs, ineligible))

\* eligible_heldout_fraction = len(testSetEligible)/(0.0+total_num_perts), against
\* desired_heldout_fraction: which of the three branches the helper takes
SplitCaseFloat(numEligible, total_num_perts, fraction) ==
    LET ehf == FDiv(numEligible, total_num_perts)
        dhf == FDiv(fraction.num, fraction.den)
    IN  IF FLess(ehf, dhf) THEN "not_enough"
        ELSE IF FEq(ehf, dhf) THEN "nailed_it"
        ELSE "plenty"

\* int(np.ceil((eligible_heldout_fraction - desired_heldout_fraction)*total_num_perts))
NumExcessFloat(numEligible, total_num_perts, fraction) ==
    Ceil(FMul(FSub(FDiv(numEligible, total_num_perts), FDiv(fraction.num, fraction.den)),
              total_num_perts))

\* round(adata.shape[0]*(1-desired_heldout_fraction))
SimpleTrainSizeFloat(n, fraction) ==
    PyRound(FMul(FSub(FInt(1), FDiv(fraction.num, fraction.den)), n))

\* The three float computations, evaluated once for every argument the model uses
\* (f @@ <<>> is f, computed in full)
SplitCaseTable ==
    [q \in (0..MaxProfiles) \X (1..MaxProfiles) \X Fractions |->
        SplitCaseFloat(q[1], q[2], q[3])] @@ <<>>

NumExcessTable ==
    [q \in (0..MaxProfiles) \X (1..MaxProfiles) \X Fractions |->
        IF SplitCaseFloat(q[1], q[2], q[3]) = "plenty"
        THEN NumExcessFloat(q[1], q[2], q[3]) ELSE 0] @@ <<>>

SimpleTrainSizeTable ==
    [q \in (0..MaxProfiles) \X Fractions |-> SimpleTrainSizeFloat(q[1], q[2])] @@ <<>>

SplitCase(numEligible, total_num_perts, fraction) ==
    SplitCaseTable[<<numEligible, total_num_perts, fraction>>]

NumExcessTestEligible(numEligible, total_num_perts, fraction) ==
    NumExcessTable[<<numEligible, total_num_perts, fraction>>]

\* np.random.default_rng(seed=data_split_seed).choice(testSetEligible, n, replace=False)
ExcessTestEligible(eligible, numExcess, seed) ==
    LET pos == RngChoice(0, seed, Len(eligible), numExcess)
    IN  [k \in 1..numExcess |-> eligible[pos[k]]]

\* the excess is not taken out of the test set
TestSetPerturbationsKeepingExcess(eligible, excess) == eligible

\* [p for p in testSetEligible if p not in excessTestEligible]
TestSetPerturbations(eligible, excess) ==
    LET kept(p) == p \notin Range(excess) IN SelectSeq(eligible, kept)

\* the excess is not put back into the training set
TrainingSetPerturbationsWithoutExcess(ineligible, excess) == ineligible

\* list(testSetIneligible) + list(excessTestEligible)
TrainingSetPerturbations(ineligible, excess) == ineligible \o excess

\* the two assignments of the branch exchanged
NotEnoughBranchExchanged(eligible, ineligible) ==
    [testSetPerturbations |-> ineligible, trainingSetPerturbations |-> eligible]

\* "Not enough profiles for the desired_heldout_fraction. Will use all available."
NotEnoughBranch(eligible, ineligible) ==
    [testSetPerturbations |-> eligible, trainingSetPerturbations |-> ineligible]

\* "nailed it"
NailedItBranch(eligible, ineligible) ==
    [testSetPerturbations |-> eligible, trainingSetPerturbations |-> ineligible]

\* "Plenty of perts work for either.  Put some back in trainset to get the right size"
PlentyBranch(eligible, ineligible, fraction, seed) ==
    LET excess == ExcessTestEligible(eligible,
                      NumExcessTestEligible(Len(eligible), Len(eligible) + Len(ineligible),
                                            fraction),
                      seed)
    IN  [testSetPerturbations     |-> TestSetPerturbations(eligible, excess),
         trainingSetPerturbations |-> TrainingSetPerturbations(ineligible, excess)]

\* the rows of adata.obs["perturbation"].isin(perts), in the order of obs
RowsIn(obs, perts) ==
    LET picked(i) == obs[i] \in perts IN SelectSeq([i \in 1..Len(obs) |-> i], picked)

SplitInterventional(ad, allowedSeq, fraction, seed) ==
    LET allowedList == FilterAllowed(allowedSeq, ad.pmg)
        eligible    == TestSetEligible(ad.obs, allowedList)
        ineligible  == TestSetIneligible(ad.obs, allowedList)
        total       == Len(eligible) + Len(ineligible)
        branch      == SplitCase(Len(eligible), total, fraction)
        chosen      == IF branch = "not_enough" THEN NotEnoughBranch(eligible, ineligible)
                       ELSE IF branch = "nailed_it" THEN NailedItBranch(eligible, ineligible)
                       ELSE PlentyBranch(eligible, ineligible, fraction, seed)
        testPerts   == Range(chosen.testSetPerturbations)
        trainPerts  == Range(chosen.trainingSetPerturbations)
    IN  IF total = 0 THEN Raised("ZeroDivisionError")
        ELSE Returned(ad, RowsIn(ad.obs, trainPerts), RowsIn(ad.obs, testPerts),
                      trainPerts, testPerts, eligible, ineligible, Range(allowedSeq))

SimpleTrainSize(n, fraction) == SimpleTrainSizeTable[<<n, fraction>>]

\* np.random.choice(replace=False, a=adata.obs_names, size=...): obs_names are 1..n
TrainObs(n, fraction, seed) == RngChoice(1, seed, n, SimpleTrainSize(n, fraction))

\* [i for i in adata.obs_names if i not in train_obs]
TestObs(n, train_obs) ==
    LET unused(i) == i \notin Range(train_obs) IN SelectSeq([i \in 1..n |-> i], unused)

SplitSimple(ad, allowedSeq, fraction, seed) ==
    LET train_obs == TrainObs(Len(ad.obs), fraction, seed)
        test_obs  == TestObs(Len(ad.obs), train_obs)
    IN  Returned(ad, train_obs, test_obs,
                 {ad.obs[i] : i \in Range(train_obs)}, {ad.obs[i] : i \in Range(test_obs)},
                 <<>>, <<>>, Range(allowedSeq))

SplitDataHelper(ad, allowedSeq, fraction, type_of_split, seed) ==
    CASE type_of_split = "interventional" -> SplitInterventional(ad, allowedSeq, fraction, seed)
      [] type_of_split = "simple" -> SplitSimple(ad, allowedSeq, fraction, seed)
      [] type_of_split = "genetic_interaction" -> Raised("NotImplementedError")
      [] OTHER -> Raised("ValueError")

----------------
(* splitDataWrapper *)

\* set.union whatever the mode
NetworkRegulatorsAlwaysUnion(nets, mode) == UNION {nets[k] : k \in DOMAIN nets}

\* set.union / set.intersection of every network's get_all_regulators()
NetworkRegulators(nets, mode) ==
    IF mode = "union" THEN UNION {nets[k] : k \in DOMAIN nets}
    ELSE {g \in UNION {nets[k] : k \in DOMAIN nets} : \A k \in DOMAIN nets : g \in nets[k]}

\* 'all' restricted to the regulators of the networks
AllowedRegulatorsInNetworks(ad, nets, mode) ==
    ad.var_names \cap UNION {nets[k] : k \in DOMAIN nets}

AllowedRegulators(ad, nets, mode) ==
    IF mode = "all" THEN ad.var_names
    ELSE ad.var_names \cap NetworkRegulators(nets, mode)

SplitDataWrapper(ad, nets, a, hashOrder) ==
    IF a.mode \notin {"all", "union", "intersection"} THEN Raised("ValueError")
    ELSE SplitDataHelper(ad, IterateSet(AllowedRegulators(ad, nets, a.mode), hashOrder),
                         a.desired_heldout_fraction, a.type_of_split, a.data_split_seed)

----------------------------------------------------------------------------
(* Experiment metadata: experiments/<name>/metadata.json as a function from *)
(* keys to values.  Python None, numbers and booleans among the defaults   *)
(* are written as strings; is_active is a boolean, kwargs_to_expand a      *)
(* sequence, kwargs and network_datasets are functions (dicts).            *)

\* at most this many changes are made to the metadata files before the call
MaxEdits == 3

GetRequiredKeys ==
    << "unique_id", "nickname", "readme", "question", "is_active", "factor_varied",
       "color_by", "facet_by",
       "network_datasets", "perturbation_dataset", "merge_replicates",
       "desired_heldout_fraction", "type_of_split",
       "pruning_parameter", "pruning_strategy", "network_prior", "regression_method",
       "feature_extraction", "low_dimensional_structure", "low_dimensional_training",
       "matching_method", "prediction_timescale" >>

GetOptionalKeys ==
    << "refers_to", "eligible_regulators", "predict_self", "num_genes",
       "baseline_condition", "data_split_seed", "starting_expression",
       "control_subtype", "kwargs_to_expand", "kwargs" >>

GetDefaultMetadata ==
    [ pruning_parameter         |-> "None",
      pruning_strategy          |-> "none",
      network_prior             |-> "ignore",
      desired_heldout_fraction  |-> "0.5",
      type_of_split             |-> "interventional",
      regression_method         |-> "RidgeCV",
      starting_expression       |-> "control",
      feature_extraction        |-> "None",
      control_subtype           |-> "None",
      kwargs                    |-> <<>>,
      kwargs_to_expand          |-> <<>>,
      data_split_seed           |-> "0",
      baseline_condition        |-> "0",
      num_genes                 |-> "10000",
      predict_self              |-> "False",
      eligible_regulators       |-> "all",
      merge_replicates          |-> "False",
      network_datasets          |-> [dense |-> <<>>],
      low_dimensional_structure |-> "none",
      low_dimensional_training  |-> "svd",
      matching_method           |-> "steady_state",
      prediction_timescale      |-> "1" ]

\* the folders of experiments/ a call may name
ExperimentNames == {"exp", "base"}

\* load_perturbations.load_perturbation_metadata().query("is_ready=='yes'")["name"]
ReadyPerturbationDatasets == {"nakatake"}

\* load_networks.load_grn_metadata()["name"]
GrnNames == {"netA"}

\* "random" in netName
ContainsRandom(netName) == netName \in {"random"}

\* a value written by the author of experiment name
UserValue(name) == IF name = "exp" THEN "value of exp" ELSE "value of base"

\* d without key k, and d with d[k] = v
Without(d, k) == [j \in DOMAIN d \ {k} |-> d[j]]

With(d, k, v) == [j \in DOMAIN d \cup {k} |-> IF j = k THEN v ELSE d[j]]

\* the metadata files before any change: exp refers to base, and base chooses
\* a regression method and a number of genes
PristineFiles ==
    [ exp  |-> [ unique_id |-> "exp", nickname |-> UserValue("exp"),
                 readme |-> UserValue("exp"), question |-> UserValue("exp"),
                 is_active |-> TRUE, factor_varied |-> UserValue("exp"),
                 color_by |-> UserValue("exp"), facet_by |-> UserValue("exp"),
                 perturbation_dataset |-> "nakatake", refers_to |-> "base" ],
      base |-> [ unique_id |-> "base", nickname |-> UserValue("base"),
                 readme |-> UserValue("base"), question |-> UserValue("base"),
                 is_active |-> TRUE, factor_varied |-> UserValue("base"),
                 color_by |-> UserValue("base"), facet_by |-> UserValue("base"),
                 perturbation_dataset |-> "nakatake",
                 regression_method |-> UserValue("base"),
                 num_genes |-> UserValue("base") ] ]

\* the keys the changes touch, and the values a change may write
EditedKeys ==
    { "unique_id", "is_active", "nickname", "perturbation_dataset", "network_datasets",
      "regression_method", "num_genes", "kwargs_to_expand", "refers_to", "unwanted_key" }

Candidates(name, k) ==
    CASE k = "unique_id" -> ExperimentNames
      [] k = "is_active" -> BOOLEAN
      [] k = "perturbation_dataset" -> {"nakatake", "not_ready"}
      [] k = "network_datasets" ->
            { [netA |-> <<>>],
              [netA |-> [subnets |-> <<"s1">>]],
              [dense |-> [subnets |-> <<"s1">>, do_aggregate_subnets |-> "True"]],
              [random |-> <<>>],
              [no_such_network |-> <<>>] }
      [] k = "kwargs_to_expand" -> {<<"x">>, <<"nickname">>, <<"num_genes">>}
      [] k = "refers_to" -> ExperimentNames \cup {"nowhere"}
      [] OTHER -> {UserValue(name)}

NoMetaArgs == [experiment_name |-> "none", permissive |-> FALSE]

\* how a call ends: by a return or an exception (status), at which step (stage),
\* and with what in its variable metadata
Exit(status, stage, metadata) == [status |-> status, stage |-> stage, metadata |-> metadata]

NoOutcome == Exit("none", "none", <<>>)

----------------------------------------------------------------------------
(* validate_metadata *)

\* the test without "not permissive"
MarkedInactiveWhateverPermissive(metadata, permissive) ==
    "is_active" \in DOMAIN metadata /\ ~metadata["is_active"]

\* (not permissive) and ("is_active" in metadata.keys()) and (not metadata["is_active"])
MarkedInactive(metadata, permissive) ==
    ~permissive /\ "is_active" \in DOMAIN metadata /\ ~metadata["is_active"]

\* assert other_metadata["is_active"] fails; a KeyError is passed over
RefersToInactive(other_metadata) ==
    "is_active" \in DOMAIN other_metadata /\ ~other_metadata["is_active"]

\* metadata.update(other_metadata): the referred values override
MergeRefersToOverriding(metadata, other_metadata) ==
    [k \in DOMAIN metadata \cup DOMAIN other_metadata |->
        IF k \in DOMAIN other_metadata THEN other_metadata[k] ELSE metadata[k]]

\* for key in other_metadata.keys(): if key not in metadata.keys(): metadata[key] = ...
MergeRefersTo(metadata, other_metadata) ==
    [k \in DOMAIN metadata \cup DOMAIN other_metadata |->
        IF k \in DOMAIN metadata THEN metadata[k] ELSE other_metadata[k]]

\* "If metadata refers to another experiment, go find missing metadata there."
FollowRefersTo(fs, metadata) ==
    IF "refers_to" \in DOMAIN metadata
    THEN MergeRefersTo(metadata, fs[metadata["refers_to"]])
    ELSE With(metadata, "refers_to", "None")

\* for k in defaults: if not k in metadata: metadata[k] = defaults[k]
FillDefaults(metadata) ==
    [k \in DOMAIN metadata \cup DOMAIN GetDefaultMetadata |->
        IF k \in DOMAIN metadata THEN metadata[k] ELSE GetDefaultMetadata[k]]

\* one network's entry with "subnets" and "do_aggregate_subnets" filled in
FillSubnets(net) ==
    [s \in DOMAIN net \cup {"subnets", "do_aggregate_subnets"} |->
        IF s \in DOMAIN net THEN net[s]
        ELSE IF s = "subnets" THEN <<"all">> ELSE "False"]

FillNetworks(metadata) ==
    [metadata EXCEPT !["network_datasets"] =
        [netName \in DOMAIN metadata["network_datasets"] |->
            FillSubnets(metadata["network_datasets"][netName])]]

\* missing = [k for k in required_keys if k not in metadata.keys()]
MissingKeys(metadata) ==
    LET missing(k) == k \notin DOMAIN metadata IN SelectSeq(GetRequiredKeys, missing)

\* no key counts as unwanted
ExtraKeysNone(metadata) == {}

\* extra = [k for k in metadata.keys() if k not in allowed_keys]
ExtraKeys(metadata) == DOMAIN metadata \ Range(GetRequiredKeys \o GetOptionalKeys)

\* for k in metadata["kwargs_to_expand"]: assert k not in metadata
ExpandableClash(metadata) ==
    \E k \in Range(metadata["kwargs_to_expand"]) : k \in DOMAIN metadata

\* netName in set(load_grn_metadata()["name"]).union({"dense", "empty"}) or "random" in netName
NetworkExistsAsNamed(netName) ==
    netName \in GrnNames \cup {"dense", "empty"} \/ ContainsRandom(netName)

NetworkChecksFail(metadata) ==
    \E netName \in DOMAIN metadata["network_datasets"] :
        \/ ~NetworkExistsAsNamed(netName)
        \/ "subnets" \notin DOMAIN metadata["network_datasets"][netName]
        \/ "do_aggregate_subnets" \notin DOMAIN metadata["network_datasets"][netName]

\* "Check all keys", "Check a few of the values"
CheckMetadata(metadata, experiment_name, permissive) ==
    IF MissingKeys(metadata) # <<>> THEN Exit("AssertionError", "checks", metadata)
    ELSE IF ExtraKeys(metadata) # {} THEN Exit("AssertionError", "checks", metadata)
    ELSE IF experiment_name # metadata["unique_id"]
         THEN Exit("AssertionError", "checks", metadata)
    ELSE IF ExpandableClash(metadata) THEN Exit("AssertionError", "checks", metadata)
    ELSE IF ~permissive /\ metadata["perturbation_dataset"] \notin ReadyPerturbationDatasets
         THEN Exit("AssertionError", "checks", metadata)
    ELSE IF ~permissive /\ NetworkChecksFail(metadata)
         THEN Exit("AssertionError", "checks", metadata)
    ELSE Exit("returned", "checks", metadata)

ValidateMetadata(fs, experiment_name, permissive) ==
    IF experiment_name \notin DOMAIN fs THEN Exit("FileNotFoundError", "load", <<>>)
    ELSE LET metadata == fs[experiment_name]
         IN  IF MarkedInactive(metadata, permissive)
             THEN Exit("ValueError", "is_active", metadata)
             ELSE IF "refers_to" \in DOMAIN metadata /\ metadata["refers_to"] \notin DOMAIN fs
             THEN Exit("FileNotFoundError", "refers_to", metadata)
             ELSE IF "refers_to" \in DOMAIN metadata
                     /\ RefersToInactive(fs[metadata["refers_to"]])
             THEN Exit("AssertionError", "refers_to", metadata)
             ELSE CheckMetadata(FillNetworks(FillDefaults(FollowRefersTo(fs, metadata))),
                                experiment_name, permissive)

----------------------------------------------------------------------------
(* The state machine of the split *)

\* one profile for each perturbation of S (what averageWithinPerturbation leaves)
OneProfileEach(S) == LET present(p) == p \in S IN SelectSeq(LabelList, present)

\* every dataset of up to MaxObs profiles, and the larger ones with one profile for
\* each perturbation
Datasets == SeqsUpTo(Labels, MaxObs) \cup {OneProfileEach(S) : S \in SUBSET Labels}

\* a file that is not there, and a table not yet made
AbsentFile == [exists |-> FALSE, columns |-> {}, rows |-> <<>>]

NoTable == [columns |-> {}, rows |-> <<>>]

\* an empty outputs folder, before any call of set_up_data_networks_conditions
SetupIdle ==
    setup = [ calls |-> 0, status |-> "none", networkNames |-> <<>>, metadata |-> <<>>,
              laid_out |-> NoTable, conditions |-> NoTable,
              conditionsCsv |-> AbsentFile, newConditionsCsv |-> AbsentFile ]

\* a table of metrics not yet made
NoFrame == [index |-> <<>>, rows |-> <<>>]

\* before any call of evaluateOnePrediction
NoEvaluation ==
    [ pc |-> "idle", stage |-> "none", error |-> "", n_jobs |-> 0,
      tasks |-> <<>>, finished |-> <<>>,
      metrics_per_target |-> NoFrame, metrics |-> NoFrame, files |-> {} ]

EvalIdle ==
    /\ evalArgs = <<>>
    /\ evaluation = NoEvaluation

\* before any call of filter_genes
NoFiltering ==
    [ status |-> "none", var_names |-> <<>>, highly_variable_rank |-> <<>>,
      perturbed_and_measured_genes |-> {}, num_genes |-> [type |-> "NoneType", value |-> 0],
      returned |-> <<>>, genes_modeled |-> <<>>, written |-> FALSE ]

FilterIdle == filtering = NoFiltering

\* before any call of do_one_run
NoRun ==
    [ status |-> "none", condition |-> "", human_tfs |-> [isNone |-> TRUE, items |-> <<>>],
      train_perturbed |-> <<>>, test_perturbed |-> <<>>,
      eligible_regulators |-> [type |-> "NoneType", list |-> <<>>, set |-> {}],
      is_control_cast |-> FALSE, built |-> FALSE, fitted |-> FALSE ]

RunIdle == run = NoRun

MetaIdle ==
    /\ files = PristineFiles
    /\ edits = 0
    /\ metaArgs = NoMetaArgs
    /\ outcome = NoOutcome

Init ==
    /\ \E obs \in Datasets, vn \in VarNameChoices, rule \in UnsRules :
           adata = MakeAdata(obs, vn, rule)
    /\ networks \in NetworkChoices
    /\ args = NoArgs
    /\ result = NoResult
    /\ calls = 0
    /\ MetaIdle
    /\ SetupIdle
    /\ EvalIdle
    /\ FilterIdle
    /\ RunIdle

\* the first call of splitDataWrapper on the dataset
CallSplit ==
    /\ calls = 0
    /\ \E mode \in Modes, type \in SplitTypes, fraction \in Fractions, seed \in Seeds,
          hashOrder \in HashOrders :
           /\ args' = [mode |-> mode, type_of_split |-> type,
                       desired_heldout_fraction |-> fraction, data_split_seed |-> seed]
           /\ result' = SplitDataWrapper(adata, networks, args', hashOrder)
    /\ calls' = 1
    /\ UNCHANGED <<run, adata, networks, files, edits, metaArgs, outcome, setup,
                   evalArgs, evaluation, filtering>>

\* a second call with the same arguments; the sets may iterate in another order
CallAgain ==
    /\ calls = 1
    /\ \E hashOrder \in HashOrders :
           result' = SplitDataWrapper(adata, networks, args, hashOrder)
    /\ calls' = 2
    /\ UNCHANGED <<run, adata, networks, args, files, edits, metaArgs, outcome, setup,
                   evalArgs, evaluation, filtering>>

Next == CallSplit \/ CallAgain

Spec == Init /\ [][Next]_vars

----------------------------------------------------------------------------
(* The state machine of the metadata: the files are written, then validated *)

SplitIdle ==
    /\ adata = MakeAdata(<<>>, {}, "by_label")
    /\ networks = <<>>
    /\ args = NoArgs
    /\ result = NoResult
    /\ calls = 0

MetaInit ==
    /\ files = PristineFiles
    /\ edits = 0
    /\ metaArgs = NoMetaArgs
    /\ outcome = NoOutcome
    /\ SplitIdle
    /\ SetupIdle
    /\ EvalIdle
    /\ FilterIdle
    /\ RunIdle

\* a metadata.json is changed: a key is dropped, or written with another value
EditMetadata ==
    /\ outcome.status = "none"
    /\ edits < MaxEdits
    /\ \E name \in ExperimentNames, k \in EditedKeys :
           \/ /\ k \in DOMAIN files[name]
              /\ files' = [files EXCEPT ![name] = Without(@, k)]
           \/ \E v \in Candidates(name, k) :
                  /\ k \in DOMAIN files[name] => files[name][k] # v
                  /\ files' = [files EXCEPT ![name] = With(@, k, v)]
    /\ edits' = edits + 1
    /\ UNCHANGED <<run, metaArgs, outcome, adata, networks, args, result, calls, setup,
                   evalArgs, evaluation, filtering>>

\* validate_metadata(experiment_name, permissive)
CallValidateMetadata ==
    /\ outcome.status = "none"
    /\ \E experiment_name \in ExperimentNames, permissive \in BOOLEAN :
           /\ metaArgs' = [experiment_name |-> experiment_name, permissive |-> permissive]
           /\ outcome' = ValidateMetadata(files, experiment_name, permissive)
    /\ UNCHANGED <<run, files, edits, adata, networks, args, result, calls, setup,
                   evalArgs, evaluation, filtering>>

MetaNext == EditMetadata \/ CallValidateMetadata

MetaSpec == MetaInit /\ [][MetaNext]_vars

----------------------------------------------------------------------------
(* What the claims speak of, read off the state *)

Returns == calls >= 1 /\ result.status = "returned"

Interventional == Returns /\ args.type_of_split = "interventional"

Simple == Returns /\ args.type_of_split = "simple"

\* the perturbation labels of the profiles in rows
LabelsOf(rows) == {adata.obs[i] : i \in Range(rows)}

\* every gene the label names is in allowedRegulators and in perturbed_and_measured_genes
AllGenesAllowed(p) ==
    \A g \in Range(p) : g \in result.allowedRegulators /\ <<g>> \in adata.pmg

\* the distinct perturbations of the dataset, and the eligible ones among them
TotalNumPerts == Cardinality(Range(adata.obs))

EligiblePerts == {p \in Range(adata.obs) : AllGenesAllowed(p)}

\* the eligible fraction against desired_heldout_fraction, in exact arithmetic
EligibleBelowDesired ==
    Cardinality(EligiblePerts) * args.desired_heldout_fraction.den
        < args.desired_heldout_fraction.num * TotalNumPerts

\* floor(desired_heldout_fraction * total)
DesiredHeldoutCount ==
    (args.desired_heldout_fraction.num * TotalNumPerts) \div args.desired_heldout_fraction.den

----------------------------------------------------------------------------
(* The claims *)

\* C1: in an interventional split no perturbation label has profiles both in the
\* training set and in the heldout set.
C1_NoSharedPerturbation ==
    Interventional => LabelsOf(result.train) \cap LabelsOf(result.heldout) = {}

\* an interventional split of a dataset with replicates where both sets are
\* non-empty and some eligible perturbations were put back into the training set
C1_Witness ==
    /\ Interventional
    /\ result.train # <<>> /\ result.heldout # <<>>
    /\ Len(result.testSetEligible) > Cardinality(result.testSetPerturbations)
    /\ Len(adata.obs) > TotalNumPerts

\* C2: in an interventional split every heldout profile's label names only genes of
\* allowedRegulators that are also in perturbed_and_measured_genes, and every
\* profile whose label names any other gene is in the training set.
C2_HeldoutOnlyAllowed ==
    Interventional =>
        /\ \A i \in Range(result.heldout) : AllGenesAllowed(adata.obs[i])
        /\ \A i \in 1..Len(adata.obs) :
               ~AllGenesAllowed(adata.obs[i]) => i \in Range(result.train)

\* a multi-gene label with one gene allowed and one not is trained on, while other
\* profiles are held out
C2_Witness ==
    /\ Interventional
    /\ result.heldout # <<>>
    /\ \E i \in Range(result.train) :
           /\ \E g \in Range(adata.obs[i]) :
                  g \in result.allowedRegulators /\ <<g>> \in adata.pmg
           /\ \E g \in Range(adata.obs[i]) : g \notin result.allowedRegulators

\* C3: in an interventional split where the eligible fraction of the distinct
\* perturbations is at least desired_heldout_fraction, the heldout set has exactly
\* floor(desired_heldout_fraction * total) distinct perturbations.
C3_HeldoutCount ==
    (Interventional /\ ~EligibleBelowDesired) =>
        Cardinality(result.testSetPerturbations) = DesiredHeldoutCount

\* C4: in an interventional split where the eligible fraction is below
\* desired_heldout_fraction, every eligible perturbation is held out and every
\* ineligible one is trained on, whatever the seed.
C4_UseAllAvailable ==
    (Interventional /\ EligibleBelowDesired) =>
        /\ result.testSetPerturbations = EligiblePerts
        /\ result.trainingSetPerturbations = Range(adata.obs) \ EligiblePerts
        /\ LabelsOf(result.heldout) = EligiblePerts
        /\ LabelsOf(result.train) = Range(adata.obs) \ EligiblePerts

\* too few eligible perturbations, with some eligible and some not
C4_Witness ==
    /\ Interventional /\ EligibleBelowDesired
    /\ EligiblePerts # {} /\ EligiblePerts # Range(adata.obs)
    /\ result.heldout # <<>> /\ result.train # <<>>

\* C5: a second call with the same dataset, networks, mode, fraction, type and seed
\* returns the same training set and the same heldout set, in whatever order the
\* sets iterate.
C5_SameSplit ==
    [][(calls = 1 /\ calls' = 2) =>
          /\ result'.status = result.status
          /\ result'.train = result.train
          /\ result'.heldout = result.heldout]_vars

\* a second interventional call that drew the excess at random from several
\* eligible perturbations, with several allowed regulators to iterate over
C5_Witness ==
    /\ calls = 2 /\ Interventional
    /\ Cardinality(result.allowedRegulators) >= 2
    /\ result.testSetPerturbations # {}
    /\ Len(result.testSetEligible) > Cardinality(result.testSetPerturbations)

\* C6: for the interventional and the simple split the two returned datasets
\* partition the profiles: each profile is in exactly one of them.
C6_Partition ==
    (Interventional \/ Simple) =>
        /\ IsInjective(result.train) /\ IsInjective(result.heldout)
        /\ Range(result.train) \cap Range(result.heldout) = {}
        /\ Range(result.train) \cup Range(result.heldout) = 1..Len(adata.obs)

\* a simple split of several profiles with both sets non-empty
C6_Witness ==
    /\ Simple
    /\ Len(adata.obs) >= 3
    /\ result.train # <<>> /\ result.heldout # <<>>

\* the regulators of the networks under the mode
InSomeNetwork(g) == \E n \in DOMAIN networks : g \in networks[n]

InEveryNetwork(g) == \A n \in DOMAIN networks : g \in networks[n]

HeldoutGenes == UNION {Range(adata.obs[i]) : i \in Range(result.heldout)}

\* C7 as stated: with 'union' (resp. 'intersection') every heldout profile perturbs
\* only regulators of some (resp. every) network, for any type of split.
C7_AnySplit ==
    Returns =>
        /\ args.mode = "union" => \A g \in HeldoutGenes : InSomeNetwork(g)
        /\ args.mode = "intersection" => \A g \in HeldoutGenes : InEveryNetwork(g)

\* C7: in an interventional split, with 'union' (resp. 'intersection') every heldout
\* profile perturbs only regulators of some (resp. every) network.
C7_InterventionalSplit ==
    Interventional =>
        /\ args.mode = "union" => \A g \in HeldoutGenes : InSomeNetwork(g)
        /\ args.mode = "intersection" => \A g \in HeldoutGenes : InEveryNetwork(g)

\* an 'intersection' split over two networks that holds profiles out while the
\* dataset perturbs a gene of one network only
C7_Witness ==
    /\ Interventional /\ args.mode = "intersection"
    /\ Cardinality(DOMAIN networks) = 2
    /\ result.heldout # <<>>
    /\ \E i \in 1..Len(adata.obs) : \E g \in Range(adata.obs[i]) :
           InSomeNetwork(g) /\ ~InEveryNetwork(g) /\ <<g>> \in adata.pmg

----------------------------------------------------------------------------
(* What the claims on validate_metadata speak of *)

MetaReturns == outcome.status = "returned"

\* the experiment's own metadata.json, and the one it refers to
OwnMetadata == files[metaArgs.experiment_name]

ReferredMetadata ==
    IF "refers_to" \in DOMAIN OwnMetadata /\ OwnMetadata["refers_to"] \in DOMAIN files
    THEN files[OwnMetadata["refers_to"]] ELSE <<>>

\* own value, else referred value, else default
ChosenValue(k) ==
    IF k \in DOMAIN OwnMetadata THEN OwnMetadata[k]
    ELSE IF k \in DOMAIN ReferredMetadata THEN ReferredMetadata[k]
    ELSE GetDefaultMetadata[k]

\* returned is chosen with each network's missing "subnets" and
\* "do_aggregate_subnets" set to ["all"] and False, and nothing else changed
NetworksFilledFrom(chosen, returned) ==
    /\ DOMAIN returned = DOMAIN chosen
    /\ \A n \in DOMAIN chosen :
           /\ DOMAIN returned[n] = DOMAIN chosen[n] \cup {"subnets", "do_aggregate_subnets"}
           /\ \A s \in DOMAIN chosen[n] : returned[n][s] = chosen[n][s]
           /\ "subnets" \notin DOMAIN chosen[n] => returned[n]["subnets"] = <<"all">>
           /\ "do_aggregate_subnets" \notin DOMAIN chosen[n]
                  => returned[n]["do_aggregate_subnets"] = "False"

\* C9 as stated: for every key of get_default_metadata() the returned value is the
\* own value, else the referred value, else the default.
C9_EveryDefaultKey ==
    MetaReturns =>
        \A k \in DOMAIN GetDefaultMetadata : outcome.metadata[k] = ChosenValue(k)

\* C9: for every key of get_default_metadata() but network_datasets the returned
\* value is the own value, else the referred value, else the default; the returned
\* network_datasets is the value so chosen with each network's missing "subnets"
\* and "do_aggregate_subnets" filled in.
C9_DefaultsNeverOverride ==
    MetaReturns =>
        \A k \in DOMAIN GetDefaultMetadata :
            IF k = "network_datasets"
            THEN NetworksFilledFrom(ChosenValue(k), outcome.metadata[k])
            ELSE outcome.metadata[k] = ChosenValue(k)

\* a returned call where one defaulted key is given by both experiments with
\* different values, one by the referred experiment only, and one by neither
C9_Witness ==
    /\ MetaReturns
    /\ \E k \in DOMAIN GetDefaultMetadata :
           /\ k \in DOMAIN OwnMetadata /\ k \in DOMAIN ReferredMetadata
           /\ OwnMetadata[k] # ReferredMetadata[k]
    /\ \E k \in DOMAIN GetDefaultMetadata :
           k \notin DOMAIN OwnMetadata /\ k \in DOMAIN ReferredMetadata
    /\ \E k \in DOMAIN GetDefaultMetadata :
           k \notin DOMAIN OwnMetadata /\ k \notin DOMAIN ReferredMetadata

\* the four conditions of the claim on a metadata
RequiredKeysPresent(md) == \A k \in Range(GetRequiredKeys) : k \in DOMAIN md

OnlyAllowedKeys(md) == \A k \in DOMAIN md : k \in Range(GetRequiredKeys) \cup Range(GetOptionalKeys)

LabeledRight(md) == md["unique_id"] = metaArgs.experiment_name

NoExpandableIsKey(md) == \A k \in Range(md["kwargs_to_expand"]) : k \notin DOMAIN md

\* C10: a returned metadata has every required key, no key that is neither required
\* nor optional, the experiment name as unique_id and no name of kwargs_to_expand
\* among its keys; a call that comes to these checks with one of them failing ends
\* with an AssertionError and returns nothing.
C10_ReturnedMetadataChecked ==
    /\ MetaReturns =>
           /\ RequiredKeysPresent(outcome.metadata)
           /\ OnlyAllowedKeys(outcome.metadata)
           /\ LabeledRight(outcome.metadata)
           /\ NoExpandableIsKey(outcome.metadata)
    /\ (outcome.stage = "checks"
          /\ ~(/\ RequiredKeysPresent(outcome.metadata)
               /\ OnlyAllowedKeys(outcome.metadata)
               /\ LabeledRight(outcome.metadata)
               /\ NoExpandableIsKey(outcome.metadata)))
           => outcome.status = "AssertionError"

\* a call stopped by the last of the four checks alone: a name of
\* kwargs_to_expand is a key that the defaults or the referred experiment filled in
C10_Witness ==
    /\ outcome.stage = "checks" /\ outcome.status = "AssertionError"
    /\ RequiredKeysPresent(outcome.metadata)
    /\ OnlyAllowedKeys(outcome.metadata)
    /\ LabeledRight(outcome.metadata)
    /\ \E k \in Range(outcome.metadata["kwargs_to_expand"]) :
           k \in DOMAIN outcome.metadata /\ k \notin DOMAIN OwnMetadata

\* the experiment's own metadata.json has is_active false
OwnInactive == "is_active" \in DOMAIN OwnMetadata /\ ~OwnMetadata["is_active"]

\* C11: a call with permissive false on an experiment whose metadata.json has
\* is_active false raises ValueError with the metadata as loaded: nothing referred
\* or default is filled in and no other check runs; with permissive true the call
\* does not end at the is_active test.
C11_InactiveRejectedFirst ==
    (outcome.status # "none" /\ OwnInactive) =>
        IF metaArgs.permissive
        THEN outcome.status # "ValueError" /\ outcome.stage # "is_active"
        ELSE /\ outcome.status = "ValueError"
             /\ outcome.stage = "is_active"
             /\ outcome.metadata = OwnMetadata

\* an inactive experiment that would also fail later steps (it refers to a missing
\* experiment or is labeled wrong) is rejected for being inactive
C11_Witness ==
    /\ outcome.status = "ValueError" /\ OwnInactive /\ ~metaArgs.permissive
    /\ \/ "unique_id" \notin DOMAIN OwnMetadata
       \/ OwnMetadata["unique_id"] # metaArgs.experiment_name
       \/ /\ "refers_to" \in DOMAIN OwnMetadata
          /\ OwnMetadata["refers_to"] \notin DOMAIN files

----------------------------------------------------------------------------
(* lay_out_runs and set_up_data_networks_conditions.  A metadata value is   *)
(* Scalar(c) or List(<<c1, ...>>); a cell c of the conditions table has a   *)
(* Python type and the text str(c).  A table has columns and rows, each row *)
(* a function from the columns to cells.                                    *)

\* the most calls of set_up_data_networks_conditions on one outputs folder
MaxSetupCalls == 3

Str(text) == [type |-> "str", text |-> text]

Num(text) == [type |-> "int", text |-> text]

PyNone == [type |-> "NoneType", text |-> "None"]

NaN == [type |-> "float", text |-> "nan"]

Scalar(c) == [isList |-> FALSE, items |-> <<c>>]

List(cs) == [isList |-> TRUE, items |-> cs]

\* the metadata lay_out_runs is given: what validate_metadata returned, with the
\* keys that take the same value in every call left out
LayoutMetadataChoices ==
    { [ readme               |-> Scalar(Str("about")),
        baseline_condition   |-> Scalar(Num("0")),
        pruning_parameter    |-> Scalar(PyNone),
        regression_method    |-> List(<<Str("RidgeCV"), Str("LassoCV")>>),
        network_datasets     |-> Scalar(Str("replaced by the network names")),
        network_prior        |-> prior,
        num_genes            |-> Scalar(num_genes),
        kwargs               |-> kw.kwargs,
        kwargs_to_expand     |-> kw.kwargs_to_expand ] :
      prior \in {Scalar(Str("restrictive")), List(<<Str("ignore"), Str("restrictive")>>)},
      num_genes \in {Num("10"), Str("10"), Num("20")},
      kw \in { [kwargs |-> [x |-> Scalar(Num("1"))], kwargs_to_expand |-> <<>>],
               [kwargs |-> [x |-> List(<<Num("1"), Num("2")>>)],
                kwargs_to_expand |-> <<"x">>] } }

\* list(networks.keys())
NetworkNameChoices == {<<"dense", "netA">>, <<"netA">>}

\* the order in which a dict lists the keys the layouts use
KeyOrder ==
    << "readme", "network_datasets", "network_prior", "regression_method",
       "pruning_parameter", "num_genes", "baseline_condition", "kwargs",
       "kwargs_to_expand", "x" >>

KeysOf(d) == LET present(k) == k \in DOMAIN d IN SelectSeq(KeyOrder, present)

\* "Remove items that don't want to be cartesian-producted" and expand the kwargs
PrepareForProduct(networkNames, metadata) ==
    LET removed  == {"readme", "baseline_condition", "kwargs", "kwargs_to_expand"}
        expanded == Range(metadata["kwargs_to_expand"])
    IN  [k \in (DOMAIN metadata \ removed) \cup expanded |->
            IF k \in expanded THEN metadata["kwargs"][k]
            ELSE IF k = "network_datasets"
                 THEN List([i \in 1..Len(networkNames) |-> Str(networkNames[i])])
                 ELSE metadata[k]]

\* if type(metadata[k]) != list: metadata[k] = [metadata[k]]
WrapSingletons(v) == IF v.isList THEN v.items ELSE <<v.items[1]>>

\* [row for row in product(*metadata.values())], the last key varying fastest
RECURSIVE Product(_, _)
Product(keys, lists) ==
    IF keys = <<>> THEN << <<>> >>
    ELSE LET rest == Product(Tail(keys), lists)
             k    == Head(keys)
         IN  [n \in 1..(Len(lists[k]) * Len(rest)) |->
                 With(rest[((n - 1) % Len(rest)) + 1], k,
                      lists[k][((n - 1) \div Len(rest)) + 1])]

\* network_prior stays what the product gave
DenseIgnoresPriorNot(row) == row

\* "ignore" if conditions.loc[i, "network_datasets"] == "dense" else the row's value
DenseIgnoresPrior(row) ==
    IF row["network_datasets"] = Str("dense")
    THEN [row EXCEPT !["network_prior"] = Str("ignore")] ELSE row

LayOutRuns(networkNames, metadata) ==
    LET prepared == PrepareForProduct(networkNames, metadata)
        lists    == [k \in DOMAIN prepared |-> WrapSingletons(prepared[k])]
        rows     == Product(KeysOf(prepared), lists)
    IN  [ columns |-> DOMAIN prepared \cup {"baseline_condition"},
          rows    |-> [n \in 1..Len(rows) |->
                          With(DenseIgnoresPrior(rows[n]), "baseline_condition",
                               metadata["baseline_condition"].items[1])] ]

\* the text DataFrame.to_csv writes for a cell: None and NaN are written empty
CellText(c) == IF c.type \in {"NoneType", "float"} THEN "" ELSE c.text

\* the texts read_csv reads as integers
NumericTexts == {"0", "1", "2", "10", "20"}

\* conditions.to_csv(path): the file, present, with every cell as text
ToCsv(table) ==
    [ exists  |-> TRUE,
      columns |-> table.columns,
      rows    |-> [n \in 1..Len(table.rows) |->
                      [c \in table.columns |-> CellText(table.rows[n][c])]] ]

\* pd.read_csv(path, index_col=0): a column of integer texts is read as integers,
\* any other as strings, and an empty cell as NaN
ReadCsv(file) ==
    LET numeric(c) == \A n \in 1..Len(file.rows) : file.rows[n][c] \in NumericTexts \cup {""}
        cell(c, t) == IF t = "" THEN NaN ELSE IF numeric(c) THEN Num(t) ELSE Str(t)
    IN  [ columns |-> file.columns,
          rows    |-> [n \in 1..Len(file.rows) |->
                          [c \in file.columns |-> cell(c, file.rows[n][c])]] ]

\* the comparison always finds the layouts equal
LayoutHasChangedNever(conditions, old_conditions) == FALSE

\* not conditions.equals(old_conditions)
LayoutHasChanged(conditions, old_conditions) == conditions # old_conditions

\* the outputs folder and the last call, after set_up_data_networks_conditions
\* has laid out the runs of metadata over the networks named
SetUpDataNetworksConditions(s, networkNames, metadata) ==
    LET laid_out == LayOutRuns(networkNames, metadata)
        written  == ToCsv(laid_out)
        reread   == ReadCsv(written)
        called   == [s EXCEPT !.calls = s.calls + 1,
                              !.networkNames = networkNames,
                              !.metadata = metadata,
                              !.laid_out = laid_out]
    IN  IF ~s.conditionsCsv.exists
        THEN [called EXCEPT !.status = "returned", !.conditions = laid_out,
                            !.conditionsCsv = written]
        ELSE IF LayoutHasChanged(reread, ReadCsv(s.conditionsCsv))
        THEN [called EXCEPT !.status = "ValueError", !.conditions = NoTable,
                            !.newConditionsCsv = written]
        ELSE [called EXCEPT !.status = "returned", !.conditions = reread,
                            !.newConditionsCsv = written,
                            !.conditionsCsv = ToCsv(reread)]

SetupInit == SetupIdle /\ MetaIdle /\ SplitIdle /\ EvalIdle /\ FilterIdle /\ RunIdle

\* set_up_data_networks_conditions(metadata, amount_to_do, outputs)
CallSetUp ==
    /\ setup.calls < MaxSetupCalls
    /\ \E networkNames \in NetworkNameChoices, metadata \in LayoutMetadataChoices :
           setup' = SetUpDataNetworksConditions(setup, networkNames, metadata)
    /\ UNCHANGED <<run, adata, networks, args, result, calls, files, edits, metaArgs, outcome,
                   evalArgs, evaluation, filtering>>

SetupNext == CallSetUp

SetupSpec == SetupInit /\ [][SetupNext]_vars

----------------------------------------------------------------------------
(* What the claims on lay_out_runs and the conditions files speak of *)

\* the keys that are factors of the product in the last call, and each one's list
Factors ==
    (DOMAIN setup.metadata \ {"readme", "kwargs", "kwargs_to_expand", "baseline_condition"})
        \cup Range(setup.metadata["kwargs_to_expand"])

FactorList(k) ==
    IF k \in Range(setup.metadata["kwargs_to_expand"]) THEN setup.metadata["kwargs"][k].items
    ELSE IF k = "network_datasets"
         THEN [i \in 1..Len(setup.networkNames) |-> Str(setup.networkNames[i])]
         ELSE setup.metadata[k].items

RECURSIVE ProductOfLengths(_)
ProductOfLengths(keys) ==
    IF keys = {} THEN 1
    ELSE LET k == CHOOSE j \in keys : TRUE
         IN  Len(FactorList(k)) * ProductOfLengths(keys \ {k})

\* a row without its baseline_condition
FactorsOfRow(n) == [k \in Factors |-> setup.laid_out.rows[n][k]]

NumRows == Len(setup.laid_out.rows)

RowIsDense(n) == setup.laid_out.rows[n]["network_datasets"] = Str("dense")

\* C12 as stated: the rows are the elements of the Cartesian product of the factor
\* lists, one row for each element, so as many rows as the product of the lengths.
C12_OneRowPerElement ==
    setup.calls > 0 =>
        /\ NumRows = ProductOfLengths(Factors)
        /\ \A n \in 1..NumRows : \A k \in Factors :
               setup.laid_out.rows[n][k] \in Range(FactorList(k))
        /\ \A n, m \in 1..NumRows : FactorsOfRow(n) = FactorsOfRow(m) => n = m

\* C12: there are as many rows as the product of the lengths of the factor lists;
\* the rows are the elements of the Cartesian product, one row for each element,
\* with network_prior set to "ignore" in the rows whose network is "dense"; readme,
\* kwargs and kwargs_to_expand are no columns and baseline_condition is a column
\* that holds the metadata's value in every row.
C12_OneRowPerElementDenseIgnored ==
    setup.calls > 0 =>
        /\ NumRows = ProductOfLengths(Factors)
        /\ setup.laid_out.columns = Factors \cup {"baseline_condition"}
        /\ \A n \in 1..NumRows :
               /\ \A k \in Factors \ {"network_prior"} :
                      setup.laid_out.rows[n][k] \in Range(FactorList(k))
               /\ IF RowIsDense(n)
                  THEN setup.laid_out.rows[n]["network_prior"] = Str("ignore")
                  ELSE setup.laid_out.rows[n]["network_prior"]
                           \in Range(FactorList("network_prior"))
               /\ Cardinality({m \in 1..NumRows : FactorsOfRow(m) = FactorsOfRow(n)})
                      = IF RowIsDense(n) THEN Len(FactorList("network_prior")) ELSE 1
               /\ setup.laid_out.rows[n]["baseline_condition"]
                      = setup.metadata["baseline_condition"].items[1]

\* a layout over the dense network and another, with two network priors and an
\* expanded kwarg of two values
C12_Witness ==
    /\ setup.calls > 0
    /\ "dense" \in Range(setup.networkNames) /\ Len(setup.networkNames) = 2
    /\ Len(setup.metadata["network_prior"].items) = 2
    /\ setup.metadata["kwargs_to_expand"] = <<"x">>
    /\ NumRows = 16

\* the layout a file holds, as read_csv reads it
StoredLayout(file) == ReadCsv(file)

\* the layout of the call that has just been made equals the one stored before it
SameAsStored(before, after) ==
    StoredLayout(ToCsv(after.laid_out)) = StoredLayout(before.conditionsCsv)

\* C13: once conditions.csv is written, every later call leaves the layout it holds
\* the same: a call whose layout equals the stored one returns, and a call whose
\* layout differs raises ValueError, writes new_conditions.csv and does not touch
\* conditions.csv; the first call, on an empty folder, returns and writes its layout.
C13_FirstLayoutStays ==
    [][setup'.calls = setup.calls + 1 =>
          IF ~setup.conditionsCsv.exists
          THEN /\ setup'.status = "returned"
               /\ setup'.conditionsCsv.exists
               /\ StoredLayout(setup'.conditionsCsv) = StoredLayout(ToCsv(setup'.laid_out))
          ELSE /\ setup'.conditionsCsv.exists
               /\ StoredLayout(setup'.conditionsCsv) = StoredLayout(setup.conditionsCsv)
               /\ IF SameAsStored(setup, setup')
                  THEN setup'.status = "returned"
                  ELSE /\ setup'.status = "ValueError"
                       /\ setup'.conditionsCsv = setup.conditionsCsv
                       /\ setup'.newConditionsCsv = ToCsv(setup'.laid_out)]_vars

\* a third call that is refused: conditions.csv still holds the first layout, and
\* new_conditions.csv the refused one
C13_Witness ==
    /\ setup.calls = 3 /\ setup.status = "ValueError"
    /\ setup.conditionsCsv.exists /\ setup.newConditionsCsv.exists
    /\ setup.newConditionsCsv = ToCsv(setup.laid_out)
    /\ StoredLayout(setup.newConditionsCsv) # StoredLayout(setup.conditionsCsv)

----------------------------------------------------------------------------
(* evaluator.py: evaluateOnePrediction and the helpers it calls.            *)
(* The matrices hold small integers, so every sum below is exact; the       *)
(* baseline has one row, so its mean over the rows is that row.  Of the    *)
(* metrics of a perturbation, the Spearman correlation and the cell fate   *)
(* are left out.                                                           *)

\* the most observations and CPUs of an evaluation, and the numbers of genes
MaxEvalObs == 2

MaxCpus == 3

EvalGeneCounts == {1, 2}

EvalObsNames == <<"o1", "o2", "o3", "o4">>

EvalVarNames == <<"g1", "g2", "g3", "g4">>

EvalPerturbations == <<"g1", "g2", "g1", "g2">>

Prefix(s, n) == SubSeq(s, 1, n)

Reversed(s) == [i \in 1..Len(s) |-> s[Len(s) + 1 - i]]

Zeros(g) == [j \in 1..g |-> 0]

\* the rows an observed, a predicted and a baseline matrix may hold
ObservedRows(g) == <<Prefix(<<0, 1, 0, 1>>, g), [j \in 1..g |-> 1]>>

\* the observed matrices of n observations: the two rows in turn, beginning with
\* the one or with the other
ObservedMatrices(n, g) ==
    { [i \in 1..n |-> ObservedRows(g)[1 + ((i + first) % 2)]] : first \in {0, 1} }

PredictedRows(g) == {Zeros(g), Prefix(<<2, 0, 2, 0>>, g)}

BaselineRows == UNION {{Zeros(g), Prefix(<<0, 1, 0, 1>>, g)} : g \in EvalGeneCounts}

\* the observed expression: n observations of g genes
ObservedChoices ==
    UNION { { [ X |-> X, obs_names |-> Prefix(EvalObsNames, n),
                var_names |-> Prefix(EvalVarNames, g),
                perturbation |-> Prefix(EvalPerturbations, n),
                elap |-> [i \in 1..n |-> IF i = 1 THEN Num("0") ELSE NaN] ]
              : X \in ObservedMatrices(n, g) }
            : n \in 1..MaxEvalObs, g \in EvalGeneCounts }

\* the observation names of a prediction that are not those of the observed
\* expression: the same in another order, or others
OtherObsNames(n) ==
    { Reversed(Prefix(EvalObsNames, n)),
      [i \in 1..n |-> IF i = 1 THEN "o9" ELSE EvalObsNames[i]] }

\* obs["perturbation"] and obs["expression_level_after_perturbation"] of a
\* prediction: as observed, another gene in the first row, a missing or an
\* unreadable level in the first row, another level in the first row
ObsColumnChoices(n) ==
    LET perturbation == Prefix(EvalPerturbations, n)
        elap(first) == [i \in 1..n |-> IF i = 1 THEN first ELSE NaN]
    IN  { <<perturbation, elap(Num("0"))>>,
          <<[i \in 1..n |-> IF i = 1 THEN "g3" ELSE perturbation[i]], elap(Num("0"))>>,
          <<perturbation, elap(NaN)>>,
          <<perturbation, elap(Str("x"))>>,
          <<perturbation, elap(Num("1"))>> }

\* obs of a prediction: the names of the observed expression with any of the
\* columns, or other names with the columns of the observed expression
PredictedObsChoices(n) ==
    { <<Prefix(EvalObsNames, n), columns>> : columns \in ObsColumnChoices(n) }
        \cup { <<names, <<Prefix(EvalPerturbations, n),
                          [i \in 1..n |-> IF i = 1 THEN Num("0") ELSE NaN]>> >>
                : names \in OtherObsNames(n) }

PredictedChoices ==
    UNION { { [ X |-> X, obs_names |-> obs[1],
                var_names |-> Prefix(EvalVarNames, g),
                perturbation |-> obs[2][1], elap |-> obs[2][2] ]
              : X \in [1..n -> PredictedRows(g)], obs \in PredictedObsChoices(n) }
            : n \in 1..MaxEvalObs, g \in EvalGeneCounts }

\* X.shape
Shape(X) == <<Len(X), Len(X[1])>>

\* all(predictedExpression.obs_names == expression.obs_names) on names of one length
ObsNamesEqualAsSets(predicted, observed) == Range(predicted) = Range(observed)

ObsNamesEqual(predicted, observed) ==
    \A i \in 1..Len(predicted) : predicted[i] = observed[i]

\* the first of the four checks that fails, or "ok"
InputChecks(expression, predictedExpression, baseline) ==
    IF Shape(expression.X) # Shape(predictedExpression.X) THEN "shape"
    ELSE IF Shape(expression.X)[2] # Len(baseline) THEN "baseline"
    ELSE IF Len(predictedExpression.obs_names) # Len(expression.obs_names) THEN "size of obs"
    ELSE IF ~ObsNamesEqual(predictedExpression.obs_names, expression.obs_names)
         THEN "indices"
    ELSE "ok"

RECURSIVE SumSeq(_)
SumSeq(s) == IF s = <<>> THEN 0 ELSE s[1] + SumSeq(Tail(s))

Abs(x) == IF x < 0 THEN -x ELSE x

Minus(x, y) == [j \in 1..Len(x) |-> x[j] - y[j]]

\* X[:, i]
Column(X, i) == [r \in 1..Len(X) |-> X[r][i]]

\* np.abs(x).sum() and np.linalg.norm(x) ** 2, the latter in exact arithmetic
SumOfAbs(x) == SumSeq([j \in 1..Len(x) |-> Abs(x[j])])

SumOfSquares(x) == SumSeq([j \in 1..Len(x) |-> x[j] * x[j]])

\* np.std(x) squared, times the square of the length of x
VarianceTimesN2(x) == Len(x) * SumOfSquares(x) - SumSeq(x) * SumSeq(x)

\* evaluate_per_target: target, std_dev, mae, mse
EvaluatePerTarget(i, target, expression, predictedExpression) ==
    LET observed  == Column(expression, i)
        predicted == Column(predictedExpression, i)
    IN  [ target |-> target,
          variance_times_n2 |-> VarianceTimesN2(predicted),
          mae |-> SumOfAbs(Minus(observed, predicted)),
          mse |-> SumOfSquares(Minus(observed, predicted)) ]

\* np.std(x) < 1e-12 on integers
IsConstantVector(x) == \A j, k \in 1..Len(x) : x[j] = x[k]

\* evaluate_per_pert: the row of defaults [0, 1, nan, ...], or the metrics; the
\* mean absolute error and the proportion of correct directions are given as
\* their numerators over the number of genes, and with at most 20 genes
\* mse_top_20, mse_top_100 and mse_top_200 take every gene
EvaluatePerPert(i, pert, expression, predictedExpression, baseline) ==
    LET predicted == predictedExpression[i]
        observed  == expression[i]
        agree(j)  == (observed[j] >= 0) = (predicted[j] >= 0)
    IN  IF \/ IsConstantVector(Minus(predicted, baseline))
           \/ IsConstantVector(Minus(observed, baseline))
        THEN [ pert |-> pert, defaults |-> TRUE, mse |-> 0, mse_top_n |-> 0,
               mae_times_genes |-> 0, correct_direction_times_genes |-> 0 ]
        ELSE [ pert |-> pert, defaults |-> FALSE,
               mse |-> SumOfSquares(Minus(observed, predicted)),
               mse_top_n |-> SumOfSquares(Minus(observed, predicted)),
               mae_times_genes |-> SumOfAbs(Minus(observed, predicted)),
               correct_direction_times_genes |->
                   Cardinality({j \in 1..Len(observed) : agree(j)}) ]

\* pd.to_numeric(column, errors='coerce') and fillna(0), cell by cell
ToNumeric(c) ==
    IF c.type = "int" THEN c
    ELSE IF c.type = "str" /\ c.text \in NumericTexts THEN Num(c.text)
    ELSE NaN

FillNa(c, value) == IF c = NaN THEN value ELSE c

\* obs.loc[:, ["perturbation", elap]].fillna(0) after lines 587-590
CheckedColumns(ad) ==
    [ index |-> ad.obs_names,
      columns |-> <<"perturbation", "expression_level_after_perturbation">>,
      cells |-> [ i \in 1..Len(ad.obs_names) |->
                    << Str(ad.perturbation[i]),
                       FillNa(ToNumeric(ad.elap[i]), Num("0")) >> ] ]

\* frame == other frame: the frame of the cell by cell comparisons
FrameEquals(a, b) ==
    [ index |-> a.index, columns |-> a.columns,
      cells |-> [ i \in 1..Len(a.cells) |->
                    [ k \in 1..Len(a.columns) |-> a.cells[i][k] = b.cells[i][k] ] ] ]

\* Python's all(frame): a DataFrame iterates over its column labels, and a label
\* is true when it is not the empty string
PyAll(frame) == \A k \in 1..Len(frame.columns) : frame.columns[k] # ""

\* the condition of line 591: TRUE lets the evaluation go on
CarefulChecksPass(expression, predictedExpression) ==
    PyAll(FrameEquals(CheckedColumns(expression), CheckedColumns(predictedExpression)))

\* the arguments of evaluateOnePrediction, and joblib.cpu_count() of the host
EvalArgs(expression, predictedExpression, baseline, doPlots, do_careful_checks, cpus) ==
    [ expression |-> expression, predictedExpression |-> predictedExpression,
      baseline |-> baseline, doPlots |-> doPlots,
      do_careful_checks |-> do_careful_checks, cpu_count |-> cpus ]

EvalRaised(ev, stage, error) == [ev EXCEPT !.pc = "raised", !.stage = stage, !.error = error]

\* Parallel(n_jobs=n_jobs)(...) over n_tasks rows: joblib refuses n_jobs == 0 with a
\* ValueError, and otherwise hands the rows to its workers
StartParallel(ev, stage, n_jobs, n_tasks) ==
    IF n_jobs = 0 THEN EvalRaised(ev, stage, "ValueError")
    ELSE [ev EXCEPT !.pc = stage, !.stage = stage, !.n_jobs = n_jobs,
                    !.tasks = [i \in 1..n_tasks |-> "pending"], !.finished = <<>>]

\* evaluate_across_targets up to its parallel map
EnterAcrossTargets(a, ev) ==
    StartParallel(ev, "targets", a.cpu_count - 1, Len(a.predictedExpression.var_names))

\* evaluate_across_perts up to its parallel map
EnterAcrossPerts(a, ev) ==
    IF a.do_careful_checks /\ ~CarefulChecksPass(a.expression, a.predictedExpression)
    THEN EvalRaised(ev, "careful", "ValueError")
    ELSE StartParallel(ev, "perts", a.cpu_count, Len(a.predictedExpression.obs_names))

\* evaluateOnePrediction up to the parallel map of evaluate_across_targets
EnterEvaluateOnePrediction(a) ==
    IF InputChecks(a.expression, a.predictedExpression, a.baseline) # "ok"
    THEN EvalRaised(NoEvaluation, "checks", "ValueError")
    ELSE EnterAcrossTargets(a, NoEvaluation)

\* what the worker given row i computes
TaskValue(a, stage, i) ==
    IF stage = "targets"
    THEN EvaluatePerTarget(i, a.predictedExpression.var_names[i],
                           a.expression.X, a.predictedExpression.X)
    ELSE EvaluatePerPert(i, a.predictedExpression.obs_names[i],
                         a.expression.X, a.predictedExpression.X, a.baseline)

\* the list Parallel returns: the values of the finished rows, in the order in
\* which the rows were given
InTaskOrder(finished, n_tasks) ==
    LET done(i) == \E k \in 1..Len(finished) : finished[k].task = i
        order   == SelectSeq([i \in 1..n_tasks |-> i], done)
        value(i) == (CHOOSE f \in Range(finished) : f.task = i).value
    IN  [k \in 1..Len(order) |-> value(order[k])]

\* Parallel returns when no row is left: every row has given its value
ReadyToGatherSkippingFailed(tasks) ==
    \A i \in 1..Len(tasks) : tasks[i] \in {"done", "failed"}

ReadyToGather(tasks) == \A i \in 1..Len(tasks) : tasks[i] = "done"

\* pd.DataFrame(results, ...).set_index(...)
MakeFrame(index, results) == [index |-> index, rows |-> results]

----------------------------------------------------------------------------
(* The state machine of the evaluation: the call, the workers, the gathering *)

EvalInit == EvalIdle /\ FilterIdle /\ SetupIdle /\ MetaIdle /\ SplitIdle /\ RunIdle

\* evaluateOnePrediction(...) is called and runs up to its first parallel map
CallEvaluateOnePrediction ==
    /\ evaluation.pc = "idle"
    /\ \E expression \in ObservedChoices, predictedExpression \in PredictedChoices,
          baseline \in BaselineRows, doPlots \in BOOLEAN, do_careful_checks \in BOOLEAN,
          cpus \in 1..MaxCpus :
           /\ evalArgs' = EvalArgs(expression, predictedExpression, baseline, doPlots,
                                   do_careful_checks, cpus)
           /\ evaluation' = EnterEvaluateOnePrediction(evalArgs')
    /\ UNCHANGED <<run, adata, networks, args, result, calls, files, edits, metaArgs, outcome,
                   setup, filtering>>

\* a free worker takes a row
StartTask ==
    /\ evaluation.pc \in {"targets", "perts"}
    /\ \E i \in 1..Len(evaluation.tasks) :
           /\ evaluation.tasks[i] = "pending"
           /\ Cardinality({j \in 1..Len(evaluation.tasks) : evaluation.tasks[j] = "running"})
                  < evaluation.n_jobs
           /\ evaluation' = [evaluation EXCEPT !.tasks[i] = "running"]
    /\ UNCHANGED <<run, adata, networks, args, result, calls, files, edits, metaArgs, outcome,
                   setup, evalArgs, filtering>>

\* a worker is done with its row: it hands over the value
FinishTask ==
    /\ evaluation.pc \in {"targets", "perts"}
    /\ \E i \in 1..Len(evaluation.tasks) :
           /\ evaluation.tasks[i] = "running"
           /\ evaluation' =
                  [evaluation EXCEPT
                     !.tasks[i] = "done",
                     !.finished = Append(@, [task |-> i,
                                             value |-> TaskValue(evalArgs, evaluation.pc, i)])]
    /\ UNCHANGED <<run, adata, networks, args, result, calls, files, edits, metaArgs, outcome,
                   setup, evalArgs, filtering>>

\* the evaluation of a row raises in its worker
FailTask ==
    /\ evaluation.pc \in {"targets", "perts"}
    /\ \E i \in 1..Len(evaluation.tasks) :
           /\ evaluation.tasks[i] = "running"
           /\ evaluation' = [evaluation EXCEPT !.tasks[i] = "failed"]
    /\ UNCHANGED <<run, adata, networks, args, result, calls, files, edits, metaArgs, outcome,
                   setup, evalArgs, filtering>>

\* Parallel raises in the caller what a row raised: nothing catches it
Abort ==
    /\ evaluation.pc \in {"targets", "perts"}
    /\ \E i \in 1..Len(evaluation.tasks) : evaluation.tasks[i] = "failed"
    /\ evaluation' = EvalRaised(evaluation, evaluation.stage, "Exception")
    /\ UNCHANGED <<run, adata, networks, args, result, calls, files, edits, metaArgs, outcome,
                   setup, evalArgs, filtering>>

\* evaluate_across_targets returns its table and evaluate_across_perts begins
GatherTargets ==
    /\ evaluation.pc = "targets"
    /\ ReadyToGather(evaluation.tasks)
    /\ LET table == MakeFrame(evalArgs.predictedExpression.var_names,
                              InTaskOrder(evaluation.finished, Len(evaluation.tasks)))
       IN  evaluation' =
               EnterAcrossPerts(evalArgs, [evaluation EXCEPT !.metrics_per_target = table])
    /\ UNCHANGED <<run, adata, networks, args, result, calls, files, edits, metaArgs, outcome,
                   setup, evalArgs, filtering>>

\* evaluate_across_perts returns its table; evaluateOnePrediction writes the files
\* of the plots (of every perturbation, or of the hardest and the easiest, which
\* are the first when every row holds the defaults) and returns
GatherPerts ==
    /\ evaluation.pc = "perts"
    /\ ReadyToGather(evaluation.tasks)
    /\ LET rows  == InTaskOrder(evaluation.finished, Len(evaluation.tasks))
           index == evalArgs.predictedExpression.obs_names
           table == MakeFrame(index, rows)
           every == \A k \in 1..Len(rows) : rows[k].defaults
       IN  \E hardest, easiest \in 1..Len(index) :
               /\ every => hardest = 1 /\ easiest = 1
               /\ evaluation' =
                      [evaluation EXCEPT
                         !.pc = "returned", !.stage = "plots", !.metrics = table,
                         !.files = IF evalArgs.doPlots THEN Range(index)
                                   ELSE {index[hardest], index[easiest]}]
    /\ UNCHANGED <<run, adata, networks, args, result, calls, files, edits, metaArgs, outcome,
                   setup, evalArgs, filtering>>

EvalNext ==
    \/ CallEvaluateOnePrediction
    \/ StartTask
    \/ FinishTask
    \/ FailTask
    \/ Abort
    \/ GatherTargets
    \/ GatherPerts

EvalSpec == EvalInit /\ [][EvalNext]_vars

\* the same, where a raised row does reach the caller
EvalFairSpec == EvalSpec /\ WF_vars(Abort)

----------------------------------------------------------------------------
(* What the claims on the evaluation speak of *)

EvalCalled == evaluation.pc # "idle"

\* some row of the running or the aborted parallel map has raised
SomeRowRaised == \E i \in 1..Len(evaluation.tasks) : evaluation.tasks[i] = "failed"

\* the tables a sequential map of evaluate_per_target and of evaluate_per_pert
\* over the rows of the prediction gives
SequentialTargets ==
    LET names == evalArgs.predictedExpression.var_names
    IN  MakeFrame(names, [i \in 1..Len(names) |->
            EvaluatePerTarget(i, names[i], evalArgs.expression.X,
                              evalArgs.predictedExpression.X)])

SequentialPerts ==
    LET names == evalArgs.predictedExpression.obs_names
    IN  MakeFrame(names, [i \in 1..Len(names) |->
            EvaluatePerPert(i, names[i], evalArgs.expression.X,
                            evalArgs.predictedExpression.X, evalArgs.baseline)])

\* the call of evaluate_across_targets, or of the map of evaluate_across_perts, is over
AcrossTargetsEnded ==
    \/ evaluation.stage \in {"careful", "perts", "plots"}
    \/ evaluation.pc = "raised" /\ evaluation.stage = "targets"

AcrossPertsEnded ==
    \/ evaluation.stage = "plots"
    \/ evaluation.pc = "raised" /\ evaluation.stage = "perts"

\* C14: when no row raises, evaluate_across_targets and evaluate_across_perts give
\* the table of the sequential map (one row for each target or perturbation of the
\* prediction, in the input order, each as evaluate_per_target or
\* evaluate_per_pert computes it), whatever the number of workers and the order
\* in which they start and finish.
C14_SameAsSequentialMap ==
    /\ AcrossTargetsEnded /\ (evaluation.stage = "targets" => ~SomeRowRaised)
           => evaluation.metrics_per_target = SequentialTargets
    /\ AcrossPertsEnded /\ ~SomeRowRaised
           => evaluation.metrics = SequentialPerts

\* C15: there is no failure recovery in the parallel evaluation.  Once the
\* evaluation of a row has raised, the map it belongs to gives no table and
\* evaluateOnePrediction does not return; the row stays failed (it is not
\* retried), a table is only ever made of all the rows (none is skipped), and the
\* exception reaches the caller.
C15_NoFailureRecovery ==
    /\ [](SomeRowRaised =>
              /\ evaluation.pc \in {"targets", "perts", "raised"}
              /\ evaluation.stage = "targets" => evaluation.metrics_per_target = NoFrame
              /\ evaluation.metrics = NoFrame
              /\ evaluation.files = {})
    /\ [](/\ evaluation.metrics_per_target # NoFrame =>
                 Len(evaluation.metrics_per_target.rows)
                     = Len(evalArgs.predictedExpression.var_names)
          /\ evaluation.metrics # NoFrame =>
                 Len(evaluation.metrics.rows) = Len(evalArgs.predictedExpression.obs_names))
    /\ [][\A i \in 1..Len(evaluation.tasks) :
              evaluation.tasks[i] = "failed" =>
                  /\ Len(evaluation.tasks') = Len(evaluation.tasks)
                  /\ evaluation.tasks'[i] = "failed"]_vars
    /\ (SomeRowRaised ~> (evaluation.pc = "raised" /\ evaluation.error = "Exception"))

\* a row of the perturbations raised while another had given its value, and the
\* call raised without a table of the perturbations
C15_Witness ==
    /\ evaluation.pc = "raised"
    /\ evaluation.error = "Exception"
    /\ evaluation.stage = "perts"
    /\ SomeRowRaised
    /\ \E i \in 1..Len(evaluation.tasks) : evaluation.tasks[i] = "done"
    /\ evaluation.metrics = NoFrame
    /\ evaluation.files = {}

\* the observed and the predicted matrix differ in shape, the baseline has another
\* number of genes than the observed expression, or the observation names differ
InputsMismatch ==
    \/ Shape(evalArgs.expression.X) # Shape(evalArgs.predictedExpression.X)
    \/ Len(evalArgs.baseline) # Len(evalArgs.expression.var_names)
    \/ evalArgs.predictedExpression.obs_names # evalArgs.expression.obs_names

\* C16: when the observed and the predicted matrix differ in shape, the baseline
\* has another number of genes than the observed expression, or the observation
\* names differ in number, content or order, evaluateOnePrediction raises
\* ValueError before any row is evaluated, any table made or any file written.
C16_MismatchRaisesFirst ==
    EvalCalled /\ InputsMismatch =>
        /\ evaluation.pc = "raised"
        /\ evaluation.error = "ValueError"
        /\ evaluation.stage = "checks"
        /\ evaluation.tasks = <<>>
        /\ evaluation.finished = <<>>
        /\ evaluation.metrics_per_target = NoFrame
        /\ evaluation.metrics = NoFrame
        /\ evaluation.files = {}

\* matrices of one shape, a baseline of as many genes, the same observation names
\* in another order: the call raised at the checks
C16_Witness ==
    /\ EvalCalled
    /\ Shape(evalArgs.expression.X) = Shape(evalArgs.predictedExpression.X)
    /\ Len(evalArgs.baseline) = Len(evalArgs.expression.var_names)
    /\ Range(evalArgs.predictedExpression.obs_names) = Range(evalArgs.expression.obs_names)
    /\ evalArgs.predictedExpression.obs_names # evalArgs.expression.obs_names
    /\ evaluation.pc = "raised"
    /\ evaluation.error = "ValueError"
    /\ evaluation.stage = "checks"
    /\ evaluation.files = {}

\* evaluate_across_perts has been entered
AcrossPertsEntered == evaluation.stage \in {"careful", "perts", "plots"}

\* some row's perturbation or level after perturbation (a missing level read as 0)
\* is not the same in expression.obs and in predictedExpression.obs
SomeRowDiffers ==
    LET level(c) == FillNa(ToNumeric(c), Num("0"))
        observed  == evalArgs.expression
        predicted == evalArgs.predictedExpression
    IN  \E i \in 1..Len(observed.obs_names) :
            \/ observed.perturbation[i] # predicted.perturbation[i]
            \/ level(observed.elap[i]) # level(predicted.elap[i])

\* C17: with do_careful_checks, evaluate_across_perts raises ValueError, before
\* it evaluates any row, whenever some row's perturbation or level after
\* perturbation (missing read as 0) differs between observed and predicted.
C17_CarefulChecksRaise ==
    AcrossPertsEntered /\ evalArgs.do_careful_checks /\ SomeRowDiffers =>
        /\ evaluation.pc = "raised"
        /\ evaluation.error = "ValueError"
        /\ evaluation.stage = "careful"

\* C18: for every target gene i, the mae and the mse evaluate_per_target returns
\* are the mean absolute and the mean squared error between column i of the
\* observed and column i of the predicted matrix, over the observations: times
\* the number of observations, they are the sums of the absolute and of the
\* squared errors.
C18_MeanErrors ==
    evaluation.metrics_per_target # NoFrame =>
        LET rows == evaluation.metrics_per_target.rows
            n    == Len(evalArgs.expression.obs_names)
            errors(i) == Minus(Column(evalArgs.expression.X, i),
                               Column(evalArgs.predictedExpression.X, i))
        IN  \A i \in 1..Len(rows) :
                /\ rows[i].mae * n = SumOfAbs(errors(i))
                /\ rows[i].mse * n = SumOfSquares(errors(i))

----------------------------------------------------------------------------
(* experimenter.filter_genes *)

\* the most genes of the dataset given to filter_genes, and the largest num_genes
MaxFilterGenes == 3

MaxNumGenes == 4

FilterVarNames == <<"g1", "g2", "g3", "g4">>

\* a gene that is perturbed but not measured
UnmeasuredGene == "gx"

\* num_genes: an integer, None, "all" or NaN
IntGenes(n) == [type |-> "int", value |-> n]

KeepAllChoices ==
    {[type |-> "NoneType", value |-> 0], [type |-> "str", value |-> 0],
     [type |-> "float", value |-> 0]}

NumGenesChoices == {IntGenes(n) : n \in -1..MaxNumGenes} \cup KeepAllChoices

\* np.where([1 if g in uns["perturbed_and_measured_genes"] else 0 for g in var_names])[0]
TargetedGenes(var_names, perturbed) ==
    {i \in 1..Len(var_names) : var_names[i] \in perturbed}

\* np.where(var["highly_variable_rank"] < num_genes - n_targeted)[0]
VariableGenesBelowNumGenes(rank, num_genes, n_targeted) ==
    {i \in 1..Len(rank) : rank[i] < num_genes}

VariableGenes(rank, num_genes, n_targeted) ==
    {i \in 1..Len(rank) : rank[i] < num_genes - n_targeted}

\* np.union1d(targeted_genes, variable_genes): the indices of both, each once, sorted
GeneIndicesConcatenated(targeted_genes, variable_genes, n) ==
    LET in(S) == SelectSeq([i \in 1..n |-> i], LAMBDA i : i \in S)
    IN  in(targeted_genes) \o in(variable_genes)

GeneIndices(targeted_genes, variable_genes, n) ==
    SelectSeq([i \in 1..n |-> i], LAMBDA i : i \in targeted_genes \cup variable_genes)

\* filter_genes(expression_quantified, num_genes, outputs): the var_names of the
\* dataset returned, and the genes written to genes_modeled.csv
FilterGenes(var_names, rank, perturbed, num_genes) ==
    LET called == [ NoFiltering EXCEPT
                      !.var_names = var_names, !.highly_variable_rank = rank,
                      !.perturbed_and_measured_genes = perturbed,
                      !.num_genes = num_genes ]
    IN  IF num_genes \in KeepAllChoices
        THEN [called EXCEPT !.status = "returned", !.returned = var_names]
        ELSE LET targeted_genes == TargetedGenes(var_names, perturbed)
                 n_targeted     == Cardinality(targeted_genes)
                 variable_genes == VariableGenes(rank, num_genes.value, n_targeted)
                 gene_indices   == GeneIndices(targeted_genes, variable_genes,
                                               Len(var_names))
                 gene_set       == [k \in 1..Len(gene_indices) |->
                                        var_names[gene_indices[k]]]
             IN  [called EXCEPT !.status = "returned", !.returned = gene_set,
                                !.genes_modeled = gene_set, !.written = TRUE]

FilterInit == FilterIdle /\ EvalIdle /\ SetupIdle /\ MetaIdle /\ SplitIdle /\ RunIdle

\* filter_genes is called on a dataset of up to MaxFilterGenes genes with a rank each
CallFilterGenes ==
    /\ filtering.status = "none"
    /\ \E n \in 1..MaxFilterGenes :
       \E rank \in [1..n -> 0..n],
          perturbed \in SUBSET (Range(Prefix(FilterVarNames, n)) \cup {UnmeasuredGene}),
          num_genes \in NumGenesChoices :
           filtering' = FilterGenes(Prefix(FilterVarNames, n), rank, perturbed, num_genes)
    /\ UNCHANGED <<run, adata, networks, args, result, calls, files, edits, metaArgs, outcome,
                   setup, evalArgs, evaluation>>

FilterNext == CallFilterGenes

FilterSpec == FilterInit /\ [][FilterNext]_vars

----------------------------------------------------------------------------
(* What the claims on filter_genes speak of *)

FilterReturnedNumeric ==
    filtering.status = "returned" /\ filtering.num_genes.type = "int"

\* the genes kept, the perturbed genes that are measured, and the rank of a gene
KeptGenes == Range(filtering.returned)

PerturbedMeasured == filtering.perturbed_and_measured_genes \cap Range(filtering.var_names)

RankOf(g) ==
    filtering.highly_variable_rank[CHOOSE i \in 1..Len(filtering.var_names) :
                                       filtering.var_names[i] = g]

\* C19: with a numeric num_genes, filter_genes keeps every gene of
\* perturbed_and_measured_genes that the dataset measures, whatever num_genes and
\* the gene's rank, and every other gene it keeps has a highly_variable_rank below
\* num_genes minus the number of perturbed measured genes.
C19_PerturbedKeptOthersRanked ==
    FilterReturnedNumeric =>
        /\ PerturbedMeasured \subseteq KeptGenes
        /\ KeptGenes \subseteq Range(filtering.var_names)
        /\ \A g \in KeptGenes \ PerturbedMeasured :
               RankOf(g) < filtering.num_genes.value - Cardinality(PerturbedMeasured)

\* num_genes is 1, two genes are perturbed and measured, both ranked last: both
\* are kept and the gene of rank 0 is not
C19_Witness ==
    /\ FilterReturnedNumeric
    /\ filtering.num_genes.value = 1
    /\ Cardinality(PerturbedMeasured) = 2
    /\ \A g \in PerturbedMeasured : RankOf(g) >= 1
    /\ \E g \in Range(filtering.var_names) : RankOf(g) = 0 /\ g \notin KeptGenes
    /\ KeptGenes = PerturbedMeasured

\* highly_variable_rank gives the genes the distinct ranks 0, 1, 2, ...
DistinctRanks ==
    /\ IsInjective(filtering.highly_variable_rank)
    /\ Range(filtering.highly_variable_rank) = 0..(Len(filtering.var_names) - 1)

\* a perturbed measured gene is among the top-ranked genes that are kept
PerturbedAmongTop ==
    \E g \in PerturbedMeasured :
        RankOf(g) < filtering.num_genes.value - Cardinality(PerturbedMeasured)

\* C20 as stated: with a numeric num_genes and distinct ranks 0, 1, 2, ...,
\* filter_genes returns at most num_genes genes, and fewer than num_genes when a
\* perturbed gene is also among the top-ranked genes.
C20_AtMostNumGenes ==
    FilterReturnedNumeric /\ DistinctRanks =>
        /\ Len(filtering.returned) <= filtering.num_genes.value
        /\ PerturbedAmongTop => Len(filtering.returned) < filtering.num_genes.value

\* C20, amended: with a numeric num_genes and distinct ranks 0, 1, 2, ...,
\* filter_genes returns at most num_genes genes or, if they are more, the
\* perturbed measured genes alone; it returns fewer than num_genes genes when a
\* perturbed gene has a rank below num_genes minus the number of perturbed
\* measured genes.
C20_AtMostNumGenesOrPerturbed ==
    FilterReturnedNumeric /\ DistinctRanks =>
        /\ \/ Len(filtering.returned) <= filtering.num_genes.value
           \/ /\ KeptGenes = PerturbedMeasured
              /\ Len(filtering.returned) = Cardinality(PerturbedMeasured)
        /\ PerturbedAmongTop => Len(filtering.returned) < filtering.num_genes.value

\* three genes of ranks 0, 1, 2 and num_genes 3: the one perturbed gene has rank 0,
\* which is below 3 - 1, and two genes are returned
C20_Witness ==
    /\ FilterReturnedNumeric
    /\ DistinctRanks
    /\ Len(filtering.var_names) = 3
    /\ filtering.num_genes.value = 3
    /\ Cardinality(PerturbedMeasured) = 1
    /\ PerturbedAmongTop
    /\ Len(filtering.returned) = 2

----------------------------------------------------------------------------
(* experimenter.do_one_run: the choice of the eligible regulators, then the  *)
(* model built and fitted by the GRN-fitting API, which may raise           *)

\* the longest list of genes given to do_one_run
MaxRunGenes == 2

RunGenes == {"g1", "g2", "g3"}

\* conditions.loc[i, 'eligible_regulators']: the three values the code knows,
\* another word, and the empty cell
EligibleRegulatorsValues == {"human_tfs", "all", "perturbed_genes", "tfs", ""}

\* human_tfs: None or a list; uns["perturbed_and_measured_genes"]: a list
GeneLists == SeqsUpTo(RunGenes, MaxRunGenes)

HumanTfsChoices ==
    {[isNone |-> TRUE, items |-> <<>>]} \cup {[isNone |-> FALSE, items |-> l] : l \in GeneLists}

\* the values eligible_regulators takes: None, a list, a set
NoRestriction == [type |-> "NoneType", list |-> <<>>, set |-> {}]

AsList(l) == [type |-> "list", list |-> l, set |-> {}]

AsSet(S) == [type |-> "set", list |-> <<>>, set |-> S]

\* set.union(set(train_data.uns[...]), set(test_data.uns[...]))
PerturbedGenesOfTraining(train_perturbed, test_perturbed) == Range(train_perturbed)

PerturbedGenes(train_perturbed, test_perturbed) ==
    Range(train_perturbed) \cup Range(test_perturbed)

\* lines 255-267: the eligible regulators, or the ValueError
ChooseEligibleRegulators(condition, human_tfs, train_perturbed, test_perturbed) ==
    IF condition = "human_tfs"
    THEN IF human_tfs.isNone
         THEN [raised |-> TRUE, value |-> NoRestriction]
         ELSE [raised |-> FALSE, value |-> AsList(human_tfs.items)]
    ELSE IF condition = "all"
    THEN [raised |-> FALSE, value |-> NoRestriction]
    ELSE IF condition = "perturbed_genes"
    THEN [raised |-> FALSE, value |-> AsSet(PerturbedGenes(train_perturbed, test_perturbed))]
    ELSE [raised |-> TRUE, value |-> NoRestriction]

\* do_one_run(conditions, i, train_data, test_data, networks, outputs, metadata,
\* human_tfs), where ggrn.GRN(...) and grn.fit(...) succeed or raise
DoOneRun(condition, human_tfs, train_perturbed, test_perturbed, builds, fits) ==
    LET called == [ NoRun EXCEPT !.condition = condition, !.human_tfs = human_tfs,
                                 !.train_perturbed = train_perturbed,
                                 !.test_perturbed = test_perturbed ]
        chosen == ChooseEligibleRegulators(condition, human_tfs, train_perturbed,
                                           test_perturbed)
        ready  == [called EXCEPT !.eligible_regulators = chosen.value,
                                 !.is_control_cast = TRUE]
    IN  IF chosen.raised THEN [called EXCEPT !.status = "ValueError"]
        ELSE IF ~builds THEN [ready EXCEPT !.status = "raised by GRN"]
        ELSE IF ~fits THEN [ready EXCEPT !.status = "raised by fit", !.built = TRUE]
        ELSE [ready EXCEPT !.status = "returned", !.built = TRUE, !.fitted = TRUE]

RunInit == RunIdle /\ FilterIdle /\ EvalIdle /\ SetupIdle /\ MetaIdle /\ SplitIdle

CallDoOneRun ==
    /\ run.status = "none"
    /\ \E condition \in EligibleRegulatorsValues, human_tfs \in HumanTfsChoices,
          train_perturbed \in GeneLists, test_perturbed \in GeneLists,
          builds \in BOOLEAN, fits \in BOOLEAN :
           run' = DoOneRun(condition, human_tfs, train_perturbed, test_perturbed,
                           builds, fits)
    /\ UNCHANGED <<adata, networks, args, result, calls, files, edits, metaArgs, outcome,
                   setup, evalArgs, evaluation, filtering>>

RunNext == CallDoOneRun

RunSpec == RunInit /\ [][RunNext]_vars

----------------------------------------------------------------------------
(* What the claim on do_one_run speaks of *)

RunCalled == run.status # "none"

RunRefused ==
    /\ run.status = "ValueError"
    /\ ~run.built
    /\ ~run.fitted
    /\ ~run.is_control_cast

\* the model was given the eligible regulators, or the API itself raised
RunWent == run.status \in {"returned", "raised by GRN", "raised by fit"}

\* C21: do_one_run takes the eligible regulators from the condition's
\* eligible_regulators value: "all" gives no restriction (None),
\* "perturbed_genes" the union of the perturbed_and_measured_genes of the
\* training and of the test data, "human_tfs" the human_tfs list, or a
\* ValueError when human_tfs is None; any other value gives a ValueError; with
\* a ValueError no model is built or fitted.
C21_EligibleRegulatorsChosen ==
    RunCalled =>
        /\ run.condition = "all" =>
               RunWent /\ run.eligible_regulators = NoRestriction
        /\ run.condition = "perturbed_genes" =>
               /\ RunWent
               /\ run.eligible_regulators.type = "set"
               /\ \A g \in RunGenes :
                      g \in run.eligible_regulators.set <=>
                          \/ \E k \in 1..Len(run.train_perturbed) : run.train_perturbed[k] = g
                          \/ \E k \in 1..Len(run.test_perturbed) : run.test_perturbed[k] = g
        /\ run.condition = "human_tfs" /\ ~run.human_tfs.isNone =>
               /\ RunWent
               /\ run.eligible_regulators.type = "list"
               /\ run.eligible_regulators.list = run.human_tfs.items
        /\ run.condition = "human_tfs" /\ run.human_tfs.isNone => RunRefused
        /\ run.condition \notin {"all", "perturbed_genes", "human_tfs"} => RunRefused
        /\ run.built \/ run.fitted => RunWent
        /\ run.fitted => run.built

\* the condition asks for the human transcription factors and human_tfs is None:
\* the call raised ValueError, and no model was built or fitted
C21_Witness ==
    /\ run.status = "ValueError"
    /\ run.condition = "human_tfs"
    /\ run.human_tfs.isNone
    /\ Len(run.train_perturbed) > 0
    /\ ~run.built
    /\ ~run.fitted

====
